---- MODULE Spec2Model ----
(***************************************************************************)
(* Model of the likes-archive collection pipeline of twit-db:              *)
(* src/src/main/collection/collector.ts (collectLikes, processMediaItems,  *)
(* downloadMedia, cleanupExistingSessions), src/src/main/storage/db.ts     *)
(* (the SQLite store), and the two callers of collectLikes: the tray menu  *)
(* (src/src/main/tray.ts) and the IPC handlers (src/unnamed/part_009).     *)
(*                                                                         *)
(* JavaScript runs one task at a time, so every action below is one        *)
(* stretch of code between two awaits (or several, where nothing else can  *)
(* write the state they touch).                                            *)
(***************************************************************************)
EXTENDS Integers, Sequences, FiniteSets, TLC

(***************************************************************************)
(* Bounds of the model.                                                    *)
(***************************************************************************)
\* Runs of collectLikes that pass the guard in one behaviour.
MaxRuns == 2
\* Environment failures (I/O errors of the store, navigation timeouts,
\* failed downloads, the browser window being closed) in one behaviour.
MaxFailures == 1
\* Times the remote site changes between two runs.
MaxRemoteChanges == 1
\* Times the system clock is set back between two runs.
MaxClockSteps == 1
\* Milliseconds that pass, at most, in an await that has no fixed delay.
MaxElapsed == 1
\* Articles a likes page renders, at most, when its feed is reduced to a count.
MaxArticles == 18
\* The wall clock when the application starts, and how far it is set back.
ClockEpoch == 100000
ClockStepBack == 20000

(***************************************************************************)
(* Program constants.                                                      *)
(***************************************************************************)
\* page.waitForTimeout(5000) once the likes page has loaded.
InitialSettleMs == 5000
\* page.waitForTimeout(3000) after every scroll.
ScrollSettleMs == 3000
\* const maxNoNewContentAttempts = 3
MaxNoNewContentAttempts == 3
\* const maxScrolls = mode === 'historical' ? 50 : 5
MaxScrolls(mode) == IF mode = "historical" THEN 50 ELSE 5

(***************************************************************************)
(* Values.  Post ids are numbers; EmptyId is the empty string that         *)
(* extractTweetId(...) || '' yields for an element without a status link.  *)
(* Undefined is JavaScript's undefined, which sqlite3 binds as NULL.       *)
(***************************************************************************)
EmptyId == 0
Undefined == -1
Ids == 1..4
Urls == 1..2

SeqRange(s) == {s[k] : k \in 1..Len(s)}

RECURSIVE Reverse(_)
Reverse(s) == IF s = <<>> THEN <<>> ELSE Append(Reverse(Tail(s)), Head(s))

RECURSIVE SelectSeqBy(_, _)
\* Array.prototype.filter with a membership test: the elements of s that are in S.
SelectSeqBy(s, S) == IF s = <<>> THEN <<>>
                     ELSE IF Head(s) \in S THEN <<Head(s)>> \o SelectSeqBy(Tail(s), S)
                                           ELSE SelectSeqBy(Tail(s), S)

RECURSIVE AddAll(_, _)
\* Set.prototype.add of every element of s, in order, to the insertion-ordered set q.
AddAll(q, s) == IF s = <<>> THEN q
                ELSE AddAll(IF Head(s) \in SeqRange(q) THEN q ELSE Append(q, Head(s)), Tail(s))

IndexOf(q, x) == IF x \in SeqRange(q) THEN CHOOSE k \in 1..Len(q) : q[k] = x /\ \A j \in 1..(k-1) : q[j] # x
                 ELSE 0

SetMax(S, dflt) == IF S = {} THEN dflt ELSE CHOOSE x \in S : \A y \in S : y <= x

(***************************************************************************)
(* The remote site.  Posts 1, 2 and 4 are by @a in conversation 1 (2 and 4 *)
(* reply to 1); post 3 is by @b, alone in conversation 3, and its text     *)
(* holds a link.  An element with EmptyId has no status link and no        *)
(* conversation attribute.                                                 *)
(***************************************************************************)
HandleOf(id) == IF id = 3 THEN "@b" ELSE IF id = EmptyId THEN "" ELSE "@a"
ConvOf(id) == IF id \in {2, 4} THEN 1 ELSE id
MediaOf(id) == IF id = 1 THEN << [url |-> 1, mediaType |-> "image"] >>
               ELSE IF id = 2 THEN << [url |-> 2, mediaType |-> "video"], [url |-> 2, mediaType |-> "gif"] >>
               ELSE << >>
LinkTextOf(id) == IF id = 3 THEN << 1 >> ELSE << >>

\* What the likes page shows (DOM order, newest first).
Feeds == { << >>, << 1 >>, << 2 >>, << 2, 1 >>, << 3, 1 >>, << 2, EmptyId >> }
\* What the page of conversation 1 shows (DOM order, oldest first).
ConvPages == { << 1 >>, << 1, 2 >>, << 1, 3, 2 >> }
\* The first article on the page of post 2: the post, its parent, or an
\* element without a status link.
FirstArticles == { 2, 1, EmptyId }

Remotes == [ feed : Feeds, conv : ConvPages, first : FirstArticles, content : 1..2 ]

\* The articles page.goto(`/i/status/${c}`) then shows.
ConvPage(rem, c) == IF c = 1 THEN rem.conv ELSE IF c \in Ids THEN << c >> ELSE << >>
\* articles[0] of the page of post m.
FirstArticle(rem, m) == IF m = 2 THEN rem.first ELSE m

(***************************************************************************)
(* The store (db.ts).  One SQLite connection; the tables are a record.     *)
(* Rows of links and media carry a random UUID as key; those tables and     *)
(* thread_tweets are kept as sequences of rows (insertion order), so that  *)
(* a duplicate row is a second element.                                    *)
(***************************************************************************)
EmptyTables == [ tweets |-> {}, links |-> << >>, media |-> << >>, thread_tweets |-> << >> ]


\* A look-up that never finds the row.
TweetNeverFound(T, id) == FALSE

\* A look-up that finds a row for any id.
TweetAlwaysFound(T, id) == TRUE

\* A row of tweets with this id (the PRIMARY KEY and FOREIGN KEY look-ups).
HasTweet(T, id) == \E r \in T.tweets : r.id = id

\* tweetExists: SELECT id FROM tweets WHERE id = ?
TweetExists(T, id) == HasTweet(T, id)

\* A row of media for this post and URL (the look-up of the table itself).
HasMedia(T, tweetId, url) == \E k \in 1..Len(T.media) : T.media[k].tweet_id = tweetId /\ T.media[k].original_url = url

\* An existence check that never finds the row.
MediaNeverFound(T, tweetId, url) == FALSE

\* mediaExists: SELECT id FROM media WHERE tweet_id = ? AND original_url = ?
MediaExists(T, tweetId, url) == HasMedia(T, tweetId, url)

\* SELECT MAX(like_order) ...; (result?.max_order ?? -1) + 1
GetHighestLikeOrder(T) == SetMax({r.like_order : r \in T.tweets}, -1) + 1

\* SELECT id FROM media_types WHERE name = ?  (undefined for an unknown name)
GetMediaTypeId(name) == IF name = "image" THEN 1 ELSE IF name = "video" THEN 2
                        ELSE IF name = "gif" THEN 3 ELSE IF name = "card" THEN 4 ELSE Undefined

\* A statement's outcome: the tables after it, or a raised error.
Ok(T) == [ ok |-> TRUE, t |-> T ]
Raised(T) == [ ok |-> FALSE, t |-> T ]

\* A property read of a JavaScript value: strings have neither originalUrl nor resolvedUrl.
GetProp(v, p) == IF v.type = "object" THEN v[p] ELSE Undefined

\* INSERT INTO tweets (...): id is the PRIMARY KEY.
InsertTweetRow(T, tweet) == IF HasTweet(T, tweet.id) THEN Raised(T)
                            ELSE Ok([T EXCEPT !.tweets = @ \cup {[ id |-> tweet.id, content |-> tweet.content,
                                                                 like_order |-> tweet.like_order,
                                                                 is_thread_start |-> 0, thread_length |-> 1 ]}])

\* INSERT INTO links (...): original_url and resolved_url are NOT NULL, tweet_id
\* REFERENCES tweets(id).
InsertLinkRow(T, tweetId, link) == IF GetProp(link, "originalUrl") = Undefined \/ GetProp(link, "resolvedUrl") = Undefined
                                         \/ ~HasTweet(T, tweetId)
                                   THEN Raised(T)
                                   ELSE Ok([T EXCEPT !.links = Append(@, [ tweet_id |-> tweetId,
                                                                         original_url |-> GetProp(link, "originalUrl"),
                                                                         resolved_url |-> GetProp(link, "resolvedUrl") ])])

\* A ROLLBACK that undoes nothing.
KeepWritten(snapshot, working) == working

\* ROLLBACK: the tables as they were at BEGIN TRANSACTION.
Rollback(snapshot, working) == snapshot

RECURSIVE InsertLinks(_, _, _, _, _)
\* for (const link of tweet.links) await db.run(INSERT INTO links ...): statement
\* number k is the next one; statement failAt fails with an I/O error.
InsertLinks(T, tweetId, links, k, failAt) == IF links = << >> THEN [ ok |-> TRUE, t |-> T, k |-> k ]
                                             ELSE IF k = failAt \/ ~InsertLinkRow(T, tweetId, Head(links)).ok
                                                  THEN [ ok |-> FALSE, t |-> T, k |-> k ]
                                                  ELSE InsertLinks(InsertLinkRow(T, tweetId, Head(links)).t, tweetId, Tail(links), k + 1, failAt)

\* The statements insertTweet runs: BEGIN, the post row, one per link, COMMIT.
StatementsOf(tweet) == 3 + Len(tweet.links)

\* insertTweet(tweet): BEGIN (statement 1), the post row (2), the link rows
\* (3 ..), COMMIT (the last); on any error ROLLBACK and rethrow.  failAt = 0:
\* no I/O error; otherwise the statement with that number fails.
InsertTweet(T, tweet, failAt) == IF failAt = 1 THEN Raised(T)
                                 ELSE LET row == InsertTweetRow(T, tweet)
                                      IN IF failAt = 2 \/ ~row.ok THEN Raised(Rollback(T, row.t))
                                         ELSE LET ls == InsertLinks(row.t, tweet.id, tweet.links, 3, failAt)
                                              IN IF ~ls.ok \/ failAt = ls.k THEN Raised(Rollback(T, ls.t))
                                                 ELSE Ok(ls.t)

\* insertMedia(data): an unknown media type throws; tweet_id REFERENCES tweets(id).
\* There is no UNIQUE constraint on (tweet_id, original_url), only an index.
InsertMedia(T, item, localPath) == IF GetMediaTypeId(item.mediaType) = Undefined \/ ~HasTweet(T, item.tweetId)
                                   THEN Raised(T)
                                   ELSE Ok([T EXCEPT !.media = Append(@, [ tweet_id |-> item.tweetId,
                                                                         media_type_id |-> GetMediaTypeId(item.mediaType),
                                                                         original_url |-> item.url,
                                                                         local_path |-> localPath ])])

RECURSIVE DeleteThreadKey(_, _, _)
\* The rows of thread_tweets without the one with this PRIMARY KEY.
DeleteThreadKey(rows, threadId, tweetId) == IF rows = << >> THEN << >>
    ELSE IF Head(rows).thread_id = threadId /\ Head(rows).tweet_id = tweetId THEN DeleteThreadKey(Tail(rows), threadId, tweetId)
    ELSE << Head(rows) >> \o DeleteThreadKey(Tail(rows), threadId, tweetId)

\* An insert that appends the row whether or not its key is there.
AppendThreadTweet(T, threadId, tweetId, position) == IF ~HasTweet(T, threadId) \/ ~HasTweet(T, tweetId) THEN Raised(T)
                                                     ELSE Ok([T EXCEPT !.thread_tweets =
                                                               Append(@, [ thread_id |-> threadId, tweet_id |-> tweetId, position |-> position ])])

\* insertThreadTweet: INSERT OR REPLACE, PRIMARY KEY (thread_id, tweet_id), both
\* REFERENCES tweets(id).
InsertThreadTweet(T, threadId, tweetId, position) == IF ~HasTweet(T, threadId) \/ ~HasTweet(T, tweetId) THEN Raised(T)
                                                     ELSE Ok([T EXCEPT !.thread_tweets =
                                                               Append(DeleteThreadKey(@, threadId, tweetId),
                                                                      [ thread_id |-> threadId, tweet_id |-> tweetId, position |-> position ])])

\* Mutant of UpdateThreadMetadata: the root is left unflagged.
MetadataUnflagged(T, threadId, length) == T

\* updateThreadMetadata: UPDATE tweets SET is_thread_start = 1, thread_length = ? WHERE id = ?
UpdateThreadMetadata(T, threadId, length) == [T EXCEPT !.tweets = {IF r.id = threadId
                                                                   THEN [r EXCEPT !.is_thread_start = 1, !.thread_length = length]
                                                                   ELSE r : r \in @}]

(***************************************************************************)
(* Extraction (collector.ts, the three page.$$eval callbacks).             *)
(***************************************************************************)
\* cleanLinks: the URLs matched in the text, as JavaScript strings.
CleanLinks(el) == [ k \in 1..Len(LinkTextOf(el)) |-> [ type |-> "string", value |-> LinkTextOf(el)[k] ] ]

\* The record built for the element at `index` of the reversed article list.
\* startOrder is passed to the callback, which never reads it: like_order is
\* Date.now() minus the index.
ExtractTweet(el, index, now, startOrder, content) == [ id |-> el, conversation_id |-> ConvOf(el), author |-> HandleOf(el),
                                                       content |-> content, like_order |-> now - index,
                                                       links |-> CleanLinks(el), media |-> MediaOf(el) ]

\* const tweets = await page.$$eval('article', ...): the articles reversed, mapped.
ExtractTweets(rem, now, startOrder) == LET rev == Reverse(rem.feed)
                                       IN [ k \in 1..Len(rev) |-> ExtractTweet(rev[k], k - 1, now, startOrder, rem.content) ]

\* tweet.author.split(' ').pop()?.trim() || ''
AuthorHandle(tweet) == tweet.author

\* The ids of the articles of conversation c by authorHandle that have an id,
\* in reversed DOM order; the member at index k gets position k.
ThreadTweets(rem, c, authorHandle) == SelectSeqBy(Reverse(ConvPage(rem, c)), {id \in Ids : HandleOf(id) = authorHandle})

\* threadTweetData: the record built from articles[0] of the page of member m.
ThreadTweetData(rem, m, now, position) == LET el == FirstArticle(rem, m)
                                          IN [ id |-> el, conversation_id |-> Undefined, author |-> HandleOf(el),
                                               content |-> rem.content, like_order |-> now - position,
                                               links |-> << >>, media |-> MediaOf(el) ]

\* mediaItems.push({ tweetId, url, mediaType }) for every media reference of a tweet.
MediaItemsOf(tweet) == [ k \in 1..Len(tweet.media) |-> [ tweetId |-> tweet.id, url |-> tweet.media[k].url,
                                                        mediaType |-> tweet.media[k].mediaType ] ]

\* The media references of every extracted post, new or not.
RECURSIVE AllFeedMediaItems(_, _)
AllFeedMediaItems(tweets, newTweetIds) == IF tweets = << >> THEN << >>
                                          ELSE (IF Head(tweets).id # EmptyId THEN MediaItemsOf(Head(tweets)) ELSE << >>)
                                               \o AllFeedMediaItems(Tail(tweets), newTweetIds)

RECURSIVE FeedMediaItems(_, _)
\* The media stage's list: the media of the tweets that have an id and were
\* inserted in this run.
FeedMediaItems(tweets, newTweetIds) == IF tweets = << >> THEN << >>
                                       ELSE (IF Head(tweets).id # EmptyId /\ Head(tweets).id \in newTweetIds
                                             THEN MediaItemsOf(Head(tweets)) ELSE << >>)
                                            \o FeedMediaItems(Tail(tweets), newTweetIds)

(***************************************************************************)
(* processMediaItems (collector.ts 125-203), run to completion: the items  *)
(* one at a time; an item's error is caught and counted.  fail = <<k, w>>: *)
(* item k fails in w ("download": fetch or writeFile, "insert": the row    *)
(* insert); k = 0: no I/O error.                                           *)
(***************************************************************************)
NoStats == [ total |-> 0, completed |-> 0, successful |-> 0, failed |-> 0, skipped |-> 0 ]

\* A skip that leaves `completed` as it was.
SkipUncompleted(acc) == [acc EXCEPT !.results = Append(@, TRUE), !.stats.skipped = @ + 1]

\* Lines 162-165: the item is already recorded.
ItemSkipped(acc) == [acc EXCEPT !.results = Append(@, TRUE), !.stats.skipped = @ + 1, !.stats.completed = @ + 1]
\* A catch block that records the failed item without counting it.
FailureUncounted(acc) == [acc EXCEPT !.results = Append(@, FALSE), !.stats.completed = @ + 1]

\* Lines 182-191: the item's error is caught.
ItemFailed(acc) == [acc EXCEPT !.results = Append(@, FALSE), !.stats.failed = @ + 1, !.stats.completed = @ + 1]
\* Lines 175-191: the file is written and the row recorded.
ItemSucceeded(acc) == [acc EXCEPT !.results = Append(@, TRUE), !.stats.successful = @ + 1, !.stats.completed = @ + 1]

\* downloadMedia returns path.join(DIRS.media, `${tweetId}_${md5(url).slice(0, 8)}${ext}`).
LocalPath(item) == << item.tweetId, item.url >>

\* Line 168: downloadMedia is called for the item; the call notes whether a
\* row for its post and URL is recorded, and for which post it fetches.
Fetching(acc, item) == [acc EXCEPT !.refetched = @ \/ HasMedia(acc.t, item.tweetId, item.url),
                                   !.posts = @ \cup {item.tweetId}]
\* downloadMedia or insertMedia throws inside the try block.
Raise(acc) == [acc EXCEPT !.raised = @ + 1]

RECURSIVE ProcessItems(_, _, _, _, _)
ProcessItems(acc, items, k, fail, total) == IF k > total THEN acc
    ELSE LET item == items[k]
         IN IF MediaExists(acc.t, item.tweetId, item.url)
            THEN ProcessItems(ItemSkipped(acc), items, k + 1, fail, total)
            ELSE IF fail = <<k, "download">>
            THEN ProcessItems(ItemFailed(Raise(Fetching(acc, item))), items, k + 1, fail, total)
            ELSE IF fail = <<k, "insert">> \/ ~InsertMedia(acc.t, item, LocalPath(item)).ok
            THEN ProcessItems(ItemFailed(Raise([Fetching(acc, item) EXCEPT !.files = @ \cup {LocalPath(item)}])), items, k + 1, fail, total)
            ELSE ProcessItems(ItemSucceeded([Fetching(acc, item) EXCEPT !.t = InsertMedia(acc.t, item, LocalPath(item)).t,
                                                                        !.files = @ \cup {LocalPath(item)}]),
                              items, k + 1, fail, total)

ProcessMediaItems(T, F, items, fail) == ProcessItems([ t |-> T, files |-> F, results |-> << >>,
                                                       stats |-> [NoStats EXCEPT !.total = Len(items)],
                                                       raised |-> 0, refetched |-> FALSE, posts |-> {} ],
                                                     items, 1, fail, Len(items))

\* The failures the environment can inject into one call.
MediaFails(items, canFail) == {<<0, "none">>} \cup (IF canFail THEN (1..Len(items)) \X {"download", "insert"} ELSE {})

(***************************************************************************)
(* Thread relationships of one conversation (collector.ts 976-1011).       *)
(***************************************************************************)
\* Mutant of AllTweetsExist: no conversation is ever verified.
NeverVerified(T, members, collected) == FALSE

\* allTweetsExist.every(...): each member was collected in this run or is stored.
AllTweetsExist(T, members, collected) == \A k \in 1..Len(members) : members[k] \in collected \/ TweetExists(T, members[k])

RECURSIVE InsertThreadTweets(_, _, _, _, _)
\* for (const threadTweet of threadTweets.tweets) await insertThreadTweet(...):
\* statement k writes the member at position k - 1; the first error ends the
\* loop.  `rows` counts the membership rows written.
InsertThreadTweets(T, threadId, members, k, failAt) == IF k - 1 > Len(members) THEN [ ok |-> TRUE, t |-> T, rows |-> k - 2 ]
    ELSE IF k = failAt \/ ~InsertThreadTweet(T, threadId, members[k - 1], k - 1).ok THEN [ ok |-> FALSE, t |-> T, rows |-> k - 2 ]
    ELSE InsertThreadTweets(InsertThreadTweet(T, threadId, members[k - 1], k - 1).t, threadId, members, k + 1, failAt)

\* updateThreadMetadata (statement 1), then the membership rows (2 ..), outside
\* any transaction: what was written before an error stays written.
WriteThread(T, threadId, members, failAt) == IF failAt = 1 THEN [ ok |-> FALSE, t |-> T, rows |-> 0 ]
                                             ELSE InsertThreadTweets(UpdateThreadMetadata(T, threadId, Len(members)),
                                                                     threadId, members, 2, failAt)

(***************************************************************************)
(* State.                                                                  *)
(***************************************************************************)
VARIABLES
    isCollecting,           \* collector.ts: let isCollecting
    currentBrowserContext,  \* collector.ts: let currentBrowserContext ("null" or "context")
    browser,                \* the browser process: "none", "open", or "gone" (its window was closed)
    lockFile,               \* the SingletonLock file of the browser profile exists
    trayIsCollecting,       \* tray.ts: let isCollecting
    collectionState,        \* part_009: let collectionState
    lastReply,              \* what the last start-collection request was answered
    run,                    \* the locals and the position of the invocation of collectLikes that is in its body
    db,                     \* the tables of the store
    files,                  \* the files in DIRS.media, as <<tweetId, url>>
    remote,                 \* what the remote site shows
    clock,                  \* the wall clock, Date.now()
    env,                    \* what the environment has done so far (the bounds count it)
    workers,                \* MediaSpec: the invocations of processMediaItems that run side by side
    tx,                     \* TxSpec: the insertTweet in progress on the shared connection, and what queries returned
    opening,                \* OpenSpec: the store file, the cached connection _db and the initDatabase in progress
    h                       \* history: what the claims talk about and the program does not keep

vars == << isCollecting, currentBrowserContext, browser, lockFile, trayIsCollecting, collectionState, lastReply,
           run, db, files, remote, clock, env, workers, tx, opening, h >>

Modes == {"incremental", "historical"}

IdleRun == [ pc |-> "idle", mode |-> "incremental", owner |-> "none", thrown |-> FALSE, tweets |-> << >>, i |-> 0,
             newTweetIds |-> {}, threadTweetsToCollect |-> << >>, collectedThreadTweets |-> {},
             articles |-> 0, scrollCount |-> 0, noNewContentCount |-> 0, previousTweetCount |-> 0 ]

NoTx == [ called |-> FALSE, raised |-> FALSE, failAt |-> 0, tweet |-> EmptyId, links |-> 0, pre |-> EmptyTables, post |-> EmptyTables ]

\* lastMedia: the last call of processMediaItems in the run.  refetched: a
\* download was started for a post and URL whose row was recorded.
\* mediaPosts: the posts for which the run has started a download.
\* startMedia: the number of media rows when the run began.
\* log: what the persistence loop of the run has logged, per element of the batch.
NoMedia == [ called |-> FALSE, stage |-> "none", total |-> 0, results |-> << >>, stats |-> NoStats, raised |-> 0 ]

\* scrolls, quiet: the scrolls of the run's pagination, and how many of the
\* last ones in a row showed no article that was not there before (3: three
\* or more).  stopAt: the scrolls done when stop-collection was requested
\* during the pagination in progress (-1: not requested).
InitHistory == [ active |-> 0, refused |-> FALSE, outcome |-> "none", firstRows |-> {}, insertOnExisting |-> FALSE, lastTx |-> NoTx,
                 startTweets |-> {}, threads |-> {}, stages |-> << >>, events |-> {}, clean |-> TRUE,
                 endDb |-> << >>, endClean |-> << >>, startRemote |-> << >>,
                 caught |-> FALSE, scrolls |-> 0, quiet |-> 0, stopAt |-> -1,
                 lastMedia |-> NoMedia, refetched |-> FALSE, mediaPosts |-> {}, startMedia |-> 0, log |-> {},
                 skipped |-> {}, local |-> 0 ]

\* No insertTweet is in progress and no query has returned.  n: the calls of
\* insertTweet so far; seen: the rows queries returned, each with the call
\* during or after which it was returned; undone: the posts whose insert
\* was rolled back, each with its call.
NoInsert == [ pc |-> "idle", tweet |-> << >>, k |-> 0, snapshot |-> << >>, n |-> 0, reads |-> 0, seen |-> {}, undone |-> {} ]

\* The store is open: the file holds the tables and _db the connection.
Opened == [ file |-> "data", cached |-> TRUE, pc |-> "idle", depth |-> 0, result |-> "none", error |-> "none",
            calls |-> 0, corruptions |-> 0, unlinks |-> 0, raised |-> 0 ]

Init == /\ isCollecting = FALSE
        /\ currentBrowserContext = "null"
        /\ browser = "none"
        /\ lockFile = FALSE
        /\ trayIsCollecting = FALSE
        /\ collectionState = [ isCollecting |-> FALSE, lastCollection |-> 0, error |-> FALSE ]
        /\ lastReply = "none"
        /\ run = IdleRun
        /\ db = EmptyTables
        /\ files = {}
        /\ remote \in {r \in Remotes : r.content = 1}
        /\ clock = ClockEpoch
        /\ env = [ failures |-> 0, runs |-> 0, remoteChanges |-> 0, clockSteps |-> 0 ]
        /\ workers = << >>
        /\ tx = NoInsert
        /\ opening = Opened
        /\ h = InitHistory

CanFail == env.failures < MaxFailures
Failed == [env EXCEPT !.failures = @ + 1]

\* An order in which the media stage comes before the thread relationships.
MediaBeforeRelate(s) == CASE s = "launch" -> "navigate"
                          [] s = "navigate" -> "paginate"
                          [] s = "paginate" -> "extract"
                          [] s = "extract" -> "persist"
                          [] s = "persist" -> "discover"
                          [] s = "discover" -> "collect"
                          [] s = "collect" -> "media"
                          [] s = "media" -> "relate"
                          [] s = "relate" -> "close"
                          [] s = "close" -> "finally"
                          [] OTHER -> "finally"

\* The order of the stages inside the try block of collectLikes.
StageAfter(s) == CASE s = "launch" -> "navigate"
                   [] s = "navigate" -> "paginate"
                   [] s = "paginate" -> "extract"
                   [] s = "extract" -> "persist"
                   [] s = "persist" -> "discover"
                   [] s = "discover" -> "collect"
                   [] s = "collect" -> "relate"
                   [] s = "relate" -> "media"
                   [] s = "media" -> "close"
                   [] s = "close" -> "finally"
                   [] OTHER -> "finally"

\* The run moves to stage s (its loop index reset), and the history notes it.
Enter(r, s) == [r EXCEPT !.pc = s, !.i = 1]
Entered(hist, s) == [hist EXCEPT !.stages = Append(@, s)]
\* An error that is swallowed where it is raised: the run goes on.
KeepGoing(r) == [r EXCEPT !.pc = StageAfter(r.pc)]

\* An error reaches the catch block of collectLikes.
Throw(r) == [r EXCEPT !.pc = "catch"]

(***************************************************************************)
(* collectLikes, lines 226-231: the single-flight guard.                   *)
(***************************************************************************)
\* A guard that lets every invocation through.
GuardOpen == FALSE

\* if (isCollecting) return;
CollectionInProgress == isCollecting

\* The invocation passes the guard: isCollecting = true, and the body starts.
StartBody(caller, mode) == /\ isCollecting' = TRUE
                           /\ run' = [IdleRun EXCEPT !.pc = "launch", !.mode = mode, !.owner = caller]
                           /\ env' = [env EXCEPT !.runs = @ + 1]
                           /\ h' = [h EXCEPT !.active = @ + 1, !.refused = FALSE, !.outcome = "none", !.startTweets = db.tweets,
                                             !.threads = {}, !.stages = << "launch" >>, !.events = {}, !.clean = TRUE,
                                             !.startRemote = Append(@, remote),
                                             !.caught = FALSE, !.scrolls = 0, !.quiet = 0, !.stopAt = -1,
                                             !.lastMedia = NoMedia, !.mediaPosts = {}, !.startMedia = Len(db.media), !.log = {},
                                             !.local = 0]

\* A collectLikes whose guard returns from inside the try block, so that the
\* finally block of the refused invocation clears the flag.
TrayStartGuardInTry(mode) == /\ ~trayIsCollecting
                             /\ CollectionInProgress \/ env.runs < MaxRuns
                             /\ IF CollectionInProgress
                                THEN /\ trayIsCollecting' = FALSE
                                     /\ isCollecting' = FALSE
                                     /\ h' = [h EXCEPT !.refused = TRUE]
                                     /\ UNCHANGED << run, env >>
                                ELSE /\ trayIsCollecting' = TRUE
                                     /\ StartBody("tray", mode)
                             /\ UNCHANGED << currentBrowserContext, browser, lockFile, collectionState, lastReply, db, files, remote, clock >>

\* tray.ts 52-83: the two menu items; the tray's own flag guards the click.
TrayStart(mode) == /\ ~trayIsCollecting
                   /\ CollectionInProgress \/ env.runs < MaxRuns
                   /\ IF CollectionInProgress
                      THEN \* collectLikes returns at once; finally: isCollecting = false
                           /\ trayIsCollecting' = FALSE
                           /\ h' = [h EXCEPT !.refused = TRUE]
                           /\ UNCHANGED << isCollecting, run, env >>
                      ELSE /\ trayIsCollecting' = TRUE
                           /\ StartBody("tray", mode)
                   /\ UNCHANGED << currentBrowserContext, browser, lockFile, collectionState, lastReply, db, files, remote, clock >>

\* part_009 26-50: the start-collection handler.
IpcStart(mode) == /\ collectionState.isCollecting \/ CollectionInProgress \/ env.runs < MaxRuns
                  /\ IF collectionState.isCollecting
                     THEN \* throw new Error('Collection already in progress')
                          /\ lastReply' = "rejected"
                          /\ UNCHANGED << isCollecting, collectionState, run, env, h >>
                     ELSE /\ lastReply' = "accepted"
                          /\ IF CollectionInProgress
                             THEN \* collectLikes resolves at once: then() and finally() run
                                  /\ collectionState' = [ isCollecting |-> FALSE, lastCollection |-> clock, error |-> FALSE ]
                                  /\ h' = [h EXCEPT !.refused = TRUE]
                                  /\ UNCHANGED << isCollecting, run, env >>
                             ELSE /\ collectionState' = [collectionState EXCEPT !.isCollecting = TRUE, !.error = FALSE]
                                  /\ StartBody("ipc", mode)
                  /\ UNCHANGED << currentBrowserContext, browser, lockFile, trayIsCollecting, db, files, remote, clock >>

\* part_009 52-55: the stop-collection handler.
IpcStop == /\ collectionState' = [collectionState EXCEPT !.isCollecting = FALSE]
           /\ h' = [h EXCEPT !.stopAt = IF run.pc = "paginate" /\ @ = -1 THEN h.scrolls ELSE @]
           /\ UNCHANGED << isCollecting, currentBrowserContext, browser, lockFile, trayIsCollecting, lastReply, run, db, files, remote, clock, env >>

\* part_009 57-63: the get-stats handler answers with the three fields.
GetStats == [ isCollecting |-> collectionState.isCollecting,
              lastCollection |-> collectionState.lastCollection,
              error |-> collectionState.error ]

\* An invocation of collectLikes is executing its body (lines 231-1090).
BodyExecuting == run.pc # "idle"

(***************************************************************************)
(* The body of collectLikes, lines 233-1091.                               *)
(***************************************************************************)
\* The environment fails the step the run is in.
Hit(hist) == [hist EXCEPT !.clean = FALSE]

\* The history of one call of insertTweet at stage s.
RecordTx(hist, s, tweet, failAt, pre, res) ==
    [hist EXCEPT !.lastTx = [ called |-> TRUE, raised |-> ~res.ok, failAt |-> failAt, tweet |-> tweet.id,
                              links |-> Len(tweet.links), pre |-> pre, post |-> res.t ],
                 !.firstRows = IF res.ok /\ ~\E f \in @ : f.id = tweet.id
                               THEN @ \cup {[ id |-> tweet.id, content |-> tweet.content, like_order |-> tweet.like_order ]}
                               ELSE @,
                 !.insertOnExisting = @ \/ HasTweet(pre, tweet.id),
                 !.events = IF res.t # pre THEN @ \cup {<<s, "write">>} ELSE @,
                 !.clean = @ /\ failAt = 0]

\* The I/O errors the environment can inject into one insertTweet.
InsertFails(tweet) == {0} \cup (IF CanFail THEN 1..StatementsOf(tweet) ELSE {})

\* Lines 241-270: mkdir, cleanupExistingSessions, launchPersistentContext.
Launch == /\ run.pc = "launch"
          /\ \/ /\ currentBrowserContext' = "context"
                /\ browser' = "open"
                /\ lockFile' = TRUE
                /\ run' = Enter(run, StageAfter("launch"))
                /\ h' = Entered(h, StageAfter("launch"))
                /\ env' = env
             \/ /\ CanFail
                /\ currentBrowserContext' = "null"
                /\ browser' = IF currentBrowserContext # "null" /\ browser = "open" THEN "none" ELSE browser
                /\ lockFile' = FALSE
                /\ run' = Throw(run)
                /\ h' = Hit(h)
                /\ env' = Failed
          /\ UNCHANGED << isCollecting, trayIsCollecting, collectionState, lastReply, db, files, remote, clock >>

\* Line 388: waitForSelector('article') resolves only if the likes page
\* shows an article; on a page without one it times out and throws.
ArticleVisible == remote.feed # << >>

\* Lines 272-391: the page, the home page, the login, the profile and the
\* likes page; every wait has a timeout and throws when it expires.
Navigate == /\ run.pc = "navigate"
            /\ \/ /\ browser = "open" /\ ArticleVisible
                  /\ clock' = clock + InitialSettleMs
                  /\ run' = [Enter(run, StageAfter("navigate")) EXCEPT !.articles = Len(remote.feed)]
                  /\ h' = Entered(h, StageAfter("navigate"))
                  /\ env' = env
               \/ /\ browser # "open" \/ ~ArticleVisible \/ CanFail
                  /\ clock' = clock
                  /\ run' = Throw(run)
                  /\ h' = Hit(h)
                  /\ env' = IF browser = "open" /\ ArticleVisible THEN Failed ELSE env
            /\ UNCHANGED << isCollecting, currentBrowserContext, browser, lockFile, trayIsCollecting, collectionState, lastReply,
                            db, files, remote >>

\* The locals of the scroll loop are dead once the loop is left.
LeaveLoop(r) == [Enter(r, StageAfter("paginate")) EXCEPT !.scrollCount = 0, !.noNewContentCount = 0, !.previousTweetCount = 0]

\* Lines 408-459: one iteration of the scroll loop (the loop is entered with
\* scrollCount = 0 < maxScrolls): scroll, wait ScrollSettleMs, count the
\* articles, compare with previousTweetCount, and leave the loop on the break
\* or when scrollCount has reached maxScrolls.  The scroll brings one of
\* `growth` more articles onto the page.
Scroll(growth) == /\ run.pc = "paginate"
                  /\ IF browser = "open"
                     THEN \E g \in growth :
                            LET count == IF run.articles + g > MaxArticles THEN MaxArticles ELSE run.articles + g
                                same == count = run.previousTweetCount
                                noNew == IF same THEN run.noNewContentCount + 1 ELSE 0
                                r == [run EXCEPT !.articles = count, !.scrollCount = @ + 1, !.noNewContentCount = noNew,
                                                 !.previousTweetCount = IF same THEN @ ELSE count]
                                leave == (same /\ noNew >= MaxNoNewContentAttempts) \/ ~(r.scrollCount < MaxScrolls(run.mode))
                                quiet == IF count > run.articles THEN 0
                                         ELSE IF h.quiet < MaxNoNewContentAttempts THEN h.quiet + 1 ELSE h.quiet
                            IN /\ clock' = clock + ScrollSettleMs
                               /\ run' = IF leave THEN LeaveLoop(r) ELSE r
                               /\ h' = IF leave THEN [Entered(h, StageAfter("paginate")) EXCEPT !.scrolls = @ + 1, !.quiet = quiet, !.stopAt = -1]
                                       ELSE [h EXCEPT !.scrolls = @ + 1, !.quiet = quiet]
                     ELSE /\ clock' = clock
                          /\ run' = Throw(run)
                          /\ h' = h
                  /\ UNCHANGED << isCollecting, currentBrowserContext, browser, lockFile, trayIsCollecting, collectionState, lastReply,
                                  db, files, remote, env >>

\* The scroll loop on a page that has rendered its whole feed before the first scroll.
Paginate == Scroll({0})

\* Lines 465-626: getHighestLikeOrder, then the extraction of every article.
Extract == /\ run.pc = "extract"
           /\ IF browser = "open"
              THEN /\ clock' = clock
                   /\ run' = [Enter(run, StageAfter("extract")) EXCEPT !.tweets = ExtractTweets(remote, clock, GetHighestLikeOrder(db))]
                   /\ h' = Entered(h, StageAfter("extract"))
              ELSE /\ clock' = clock
                   /\ run' = Throw(run)
                   /\ h' = h
           /\ UNCHANGED << isCollecting, currentBrowserContext, browser, lockFile, trayIsCollecting, collectionState, lastReply,
                           db, files, remote, env >>

\* An error of one entity that leaves its loop and reaches the catch block of
\* the run.
Rethrown(r) == [r EXCEPT !.pc = "catch"]

\* Lines 653-657, 759-765, 899-901: the catch block inside the loop body logs
\* the error of this entity, and the loop goes on with the next one.
CaughtInLoop(r) == [r EXCEPT !.i = @ + 1]
\* One more error caught inside a loop body in this run.
LocalError(hist) == [hist EXCEPT !.local = @ + 1]

\* Lines 644-655: log(..., 'tweet_processed', ...) or logError(..., 'tweet_process_failed', ...)
\* for the element at index k of the batch.
Logged(hist, k, what) == [hist EXCEPT !.log = @ \cup {<< k, what >>}]

\* Lines 634-658: one iteration of the persistence loop.
PersistOne == /\ run.pc = "persist" /\ run.i <= Len(run.tweets)
              /\ LET tweet == run.tweets[run.i]
                 IN IF tweet.id # EmptyId /\ ~TweetExists(db, tweet.id)
                    THEN \E failAt \in InsertFails(tweet) :
                           LET res == InsertTweet(db, tweet, failAt)
                           IN /\ db' = res.t
                              /\ run' = IF res.ok THEN [run EXCEPT !.i = @ + 1, !.newTweetIds = @ \cup {tweet.id}] ELSE CaughtInLoop(run)
                              /\ h' = IF res.ok THEN Logged(RecordTx(h, "persist", tweet, failAt, db, res), run.i, "tweet_processed")
                                       ELSE LocalError(Logged(RecordTx(h, "persist", tweet, failAt, db, res), run.i, "tweet_process_failed"))
                              /\ env' = IF failAt # 0 THEN Failed ELSE env
                    ELSE /\ run' = [run EXCEPT !.i = @ + 1]
                         /\ h' = IF tweet.id # EmptyId THEN Logged(h, run.i, "tweet_processed") ELSE h
                         /\ UNCHANGED << db, env >>
              /\ UNCHANGED << isCollecting, currentBrowserContext, browser, lockFile, trayIsCollecting, collectionState, lastReply,
                              files, remote, clock >>

\* if (tweet.conversation_id && tweet.author)
HasConversation(tweet) == tweet.conversation_id # EmptyId /\ tweet.author # ""

\* Lines 672-766: one iteration of the first pass over the tweets; a failed
\* navigation is caught and the loop goes on.
DiscoverOne == /\ run.pc = "discover" /\ run.i <= Len(run.tweets)
               /\ LET tweet == run.tweets[run.i]
                  IN \/ /\ HasConversation(tweet) /\ browser = "open"
                        /\ run' = [run EXCEPT !.i = @ + 1,
                                              !.threadTweetsToCollect = AddAll(@, ThreadTweets(remote, tweet.conversation_id, AuthorHandle(tweet)))]
                        /\ UNCHANGED << h, env >>
                     \/ /\ HasConversation(tweet) /\ (browser # "open" \/ CanFail)
                        /\ run' = CaughtInLoop(run)
                        /\ h' = LocalError(Hit(h))
                        /\ env' = IF browser = "open" THEN Failed ELSE env
                     \/ /\ ~HasConversation(tweet)
                        /\ run' = [run EXCEPT !.i = @ + 1]
                        /\ UNCHANGED << h, env >>
               /\ UNCHANGED << isCollecting, currentBrowserContext, browser, lockFile, trayIsCollecting, collectionState, lastReply,
                               db, files, remote, clock >>

\* What one call of processMediaItems at stage s, for posts of kind `what`, adds to the history.
RecordMedia(hist, s, what, pm, fail) ==
    [hist EXCEPT !.events = IF pm.stats.successful + pm.stats.failed > 0 THEN @ \cup {<<s, what>>} ELSE @,
                 !.clean = @ /\ fail[1] = 0,
                 !.lastMedia = [ called |-> TRUE, stage |-> s, total |-> pm.stats.total, results |-> pm.results,
                                 stats |-> pm.stats, raised |-> pm.raised ],
                 !.refetched = @ \/ pm.refetched,
                 !.mediaPosts = @ \cup pm.posts]

\* Lines 773-905: one iteration of the second pass, over threadTweetsToCollect.
CollectOne == /\ run.pc = "collect" /\ run.i <= Len(run.threadTweetsToCollect)
              /\ LET tweetId == run.threadTweetsToCollect[run.i]
                 IN IF TweetExists(db, tweetId)
                    THEN /\ run' = [run EXCEPT !.i = @ + 1, !.collectedThreadTweets = @ \cup {tweetId}]
                         /\ UNCHANGED << db, files, clock, h, env >>
                    ELSE \/ \* page.goto or waitForSelector throws: caught, logged
                            /\ browser # "open" \/ CanFail
                            /\ run' = CaughtInLoop(run)
                            /\ h' = LocalError(Hit(h))
                            /\ env' = IF browser = "open" THEN Failed ELSE env
                            /\ UNCHANGED << db, files, clock >>
                         \/ /\ browser = "open"
                            /\ \E d \in 0..MaxElapsed :
                                 LET data == ThreadTweetData(remote, tweetId, clock + d, IndexOf(run.threadTweetsToCollect, tweetId))
                                 IN /\ clock' = clock + d
                                    /\ IF TweetExists(db, data.id)
                                       THEN /\ run' = [run EXCEPT !.i = @ + 1]
                                            /\ UNCHANGED << db, files, h, env >>
                                       ELSE \E failAt \in InsertFails(data) :
                                              LET res == InsertTweet(db, data, failAt)
                                                  items == MediaItemsOf(data)
                                              IN IF ~res.ok
                                                 THEN /\ db' = res.t
                                                      /\ run' = CaughtInLoop(run)
                                                      /\ h' = LocalError(RecordTx(h, "collect", data, failAt, db, res))
                                                      /\ env' = IF failAt # 0 THEN Failed ELSE env
                                                      /\ files' = files
                                                 ELSE \E fail \in MediaFails(items, CanFail) :
                                                        LET pm == ProcessMediaItems(res.t, files, items, fail)
                                                        IN /\ db' = pm.t
                                                           /\ files' = pm.files
                                                           /\ run' = [run EXCEPT !.i = @ + 1, !.collectedThreadTweets = @ \cup {data.id}]
                                                           /\ h' = RecordMedia(RecordTx(h, "collect", data, failAt, db, res), "collect", "memberMedia", pm, fail)
                                                           /\ env' = IF fail[1] # 0 THEN Failed ELSE env
              /\ UNCHANGED << isCollecting, currentBrowserContext, browser, lockFile, trayIsCollecting, collectionState, lastReply, remote >>

\* The I/O errors the environment can inject into the writes of one thread.
ThreadFails(members) == {0} \cup (IF CanFail THEN 1..(Len(members) + 1) ELSE {})

\* Lines 910-1020: one iteration of the third pass over the tweets.
RelateOne == /\ run.pc = "relate" /\ run.i <= Len(run.tweets)
             /\ LET tweet == run.tweets[run.i]
                    members == ThreadTweets(remote, tweet.conversation_id, AuthorHandle(tweet))
                IN \/ /\ HasConversation(tweet) /\ browser = "open"
                      /\ IF Len(members) > 1
                         THEN IF AllTweetsExist(db, members, run.collectedThreadTweets)
                              THEN \E failAt \in ThreadFails(members) :
                                     LET res == WriteThread(db, tweet.id, members, failAt)
                                     IN /\ db' = res.t
                                        /\ env' = IF failAt # 0 THEN Failed ELSE env
                                        /\ h' = [h EXCEPT !.threads = @ \cup {[ threadId |-> tweet.id, members |-> members, verified |-> TRUE,
                                                                               root |-> failAt # 1 /\ HasTweet(db, tweet.id),
                                                                               rows |-> res.rows ]},
                                                          !.events = IF res.t # db THEN @ \cup {<<"relate", "write">>} ELSE @,
                                                          !.clean = @ /\ failAt = 0]
                              ELSE /\ h' = [h EXCEPT !.threads = @ \cup {[ threadId |-> tweet.id, members |-> members, verified |-> FALSE,
                                                                          root |-> FALSE, rows |-> 0 ]},
                                                          !.skipped = @ \cup {<< env.runs, tweet.id >>}]
                                   /\ UNCHANGED << db, env >>
                         ELSE UNCHANGED << db, env, h >>
                   \/ /\ HasConversation(tweet) /\ (browser # "open" \/ CanFail)
                      /\ h' = Hit(h)
                      /\ env' = IF browser = "open" THEN Failed ELSE env
                      /\ db' = db
                   \/ /\ ~HasConversation(tweet)
                      /\ UNCHANGED << db, env, h >>
             /\ run' = [run EXCEPT !.i = @ + 1]
             /\ UNCHANGED << isCollecting, currentBrowserContext, browser, lockFile, trayIsCollecting, collectionState, lastReply,
                             files, remote, clock >>

\* The length of the list the loop of stage s runs over.
LoopLength(r) == IF r.pc = "collect" THEN Len(r.threadTweetsToCollect) ELSE Len(r.tweets)

\* A for loop has reached the end of its list: the next stage starts.
LoopDone == /\ run.pc \in {"persist", "discover", "collect", "relate"}
            /\ run.i > LoopLength(run)
            /\ run' = Enter(run, StageAfter(run.pc))
            /\ h' = Entered(h, StageAfter(run.pc))
            /\ UNCHANGED << isCollecting, currentBrowserContext, browser, lockFile, trayIsCollecting, collectionState, lastReply,
                            db, files, remote, clock, env >>

\* Lines 1024-1074: the media of the feed tweets inserted in this run.
Media == /\ run.pc = "media"
         /\ LET items == FeedMediaItems(run.tweets, run.newTweetIds)
            IN IF Len(items) > 0
               THEN \E fail \in MediaFails(items, CanFail) :
                      LET pm == ProcessMediaItems(db, files, items, fail)
                      IN /\ db' = pm.t
                         /\ files' = pm.files
                         /\ h' = Entered(RecordMedia(h, "media", "feedMedia", pm, fail), StageAfter("media"))
                         /\ env' = IF fail[1] # 0 THEN Failed ELSE env
               ELSE /\ h' = Entered(h, StageAfter("media"))
                    /\ UNCHANGED << db, files, env >>
         /\ run' = Enter(run, StageAfter("media"))
         /\ UNCHANGED << isCollecting, currentBrowserContext, browser, lockFile, trayIsCollecting, collectionState, lastReply,
                         remote, clock >>

\* Lines 1076-1077: await currentBrowserContext.close(); currentBrowserContext = null.
\* close() of a browser that is gone resolves or throws.
Close == /\ run.pc = "close"
         /\ \/ /\ currentBrowserContext' = "null"
               /\ browser' = IF browser = "open" THEN "none" ELSE browser
               /\ lockFile' = FALSE
               /\ run' = Enter(run, StageAfter("close"))
               /\ h' = Entered(h, StageAfter("close"))
            \/ /\ browser # "open"
               /\ run' = Throw(run)
               /\ UNCHANGED << currentBrowserContext, browser, lockFile, h >>
         /\ UNCHANGED << isCollecting, trayIsCollecting, collectionState, lastReply, db, files, remote, clock, env >>

\* A catch block whose close() is not wrapped.
CloseErrorUncaught == TRUE

\* Lines 1081-1085: the close() in the catch block is itself in a try/catch,
\* so its error never leaves the block.
CloseErrorEscapes == FALSE

\* Lines 1078-1087: the catch block.
Catch == /\ run.pc = "catch"
         /\ IF currentBrowserContext # "null"
            THEN /\ currentBrowserContext' = "null"
                 /\ browser' = IF browser = "open" THEN "none" ELSE browser
                 /\ lockFile' = FALSE
                 /\ run' = [run EXCEPT !.pc = "finally", !.thrown = browser # "open" /\ CloseErrorEscapes]
            ELSE /\ run' = [run EXCEPT !.pc = "finally"]
                 /\ UNCHANGED << currentBrowserContext, browser, lockFile >>
         /\ h' = [Entered(Hit(h), "finally") EXCEPT !.caught = TRUE]
         /\ UNCHANGED << isCollecting, trayIsCollecting, collectionState, lastReply, db, files, remote, clock, env >>

\* A finally block that leaves the flag set.
FlagLeftSet == TRUE

\* Lines 1088-1090: isCollecting = false.
FinallyFlag == FALSE

\* The finally block, the settling of the promise and, in the same turn of
\* the event loop, the caller's continuation: tray.ts 60-63 (finally), part_009
\* 37-46 (then, catch, finally).
Finally == /\ run.pc = "finally"
           /\ isCollecting' = FinallyFlag
           /\ run' = IdleRun
           /\ h' = [h EXCEPT !.active = @ - 1, !.outcome = IF run.thrown THEN "rejected" ELSE "resolved",
                             !.endDb = Append(@, db), !.endClean = Append(@, h.clean)]
           /\ IF run.owner = "tray"
              THEN /\ trayIsCollecting' = FALSE
                   /\ UNCHANGED collectionState
              ELSE /\ collectionState' = [ isCollecting |-> FALSE,
                                           lastCollection |-> IF run.thrown THEN collectionState.lastCollection ELSE clock,
                                           error |-> IF run.thrown THEN TRUE ELSE collectionState.error ]
                   /\ UNCHANGED trayIsCollecting
           /\ UNCHANGED << currentBrowserContext, browser, lockFile, lastReply, db, files, remote, clock, env >>

(***************************************************************************)
(* The environment.                                                        *)
(***************************************************************************)
\* The user closes the browser window (headless: false) during a run.
BrowserGone == /\ browser = "open" /\ CanFail
               /\ run.pc \notin {"idle", "catch", "finally"}
               /\ browser' = "gone"
               /\ lockFile' = FALSE
               /\ env' = Failed
               /\ h' = Hit(h)
               /\ UNCHANGED << isCollecting, currentBrowserContext, trayIsCollecting, collectionState, lastReply,
                               run, db, files, remote, clock >>

\* Between two runs the remote site changes in one respect.
RemoteChange == /\ run.pc = "idle" /\ env.runs > 0 /\ env.remoteChanges < MaxRemoteChanges
                /\ \E r \in Remotes :
                     /\ Cardinality({f \in {"feed", "conv", "first", "content"} : r[f] # remote[f]}) = 1
                     /\ remote' = r
                /\ env' = [env EXCEPT !.remoteChanges = @ + 1]
                /\ UNCHANGED << isCollecting, currentBrowserContext, browser, lockFile, trayIsCollecting, collectionState, lastReply,
                                run, db, files, clock, h >>

\* Between two runs the system clock is set back (Date.now() is the wall clock).
ClockSetBack == /\ run.pc = "idle" /\ env.runs > 0 /\ env.clockSteps < MaxClockSteps
                /\ clock' = clock - ClockStepBack
                /\ env' = [env EXCEPT !.clockSteps = @ + 1]
                /\ UNCHANGED << isCollecting, currentBrowserContext, browser, lockFile, trayIsCollecting, collectionState, lastReply,
                                run, db, files, remote, h >>

\* One step of the run; no processMediaItems runs beside the run's own.
RunStep == /\ \/ Launch \/ Navigate \/ Paginate \/ Extract
              \/ PersistOne \/ DiscoverOne \/ CollectOne \/ RelateOne \/ LoopDone
              \/ Media \/ Close \/ Catch \/ Finally
           /\ UNCHANGED << workers, tx, opening >>

(***************************************************************************)
(* Spec: the callers and the run.  Both callers, both modes, a stop        *)
(* request at any time, against a remote site that shows a thread.         *)
(***************************************************************************)
CallerRemotes == { r \in Remotes : r.feed \in {<< 2, 1 >>, << 3, 1 >>} /\ r.conv = << 1, 2 >> /\ r.first = 2 /\ r.content = 1 }

CallerInit == Init /\ remote \in CallerRemotes

Next == \/ \E mode \in Modes : TrayStart(mode) /\ UNCHANGED << workers, tx, opening >>
        \/ \E mode \in Modes : IpcStart(mode) /\ UNCHANGED << workers, tx, opening >>
        \/ IpcStop /\ UNCHANGED << workers, tx, opening >>
        \/ BrowserGone /\ UNCHANGED << workers, tx, opening >>
        \/ Launch /\ UNCHANGED << workers, tx, opening >>
        \/ Navigate /\ UNCHANGED << workers, tx, opening >>
        \/ Paginate /\ UNCHANGED << workers, tx, opening >>
        \/ Extract /\ UNCHANGED << workers, tx, opening >>
        \/ PersistOne /\ UNCHANGED << workers, tx, opening >>
        \/ DiscoverOne /\ UNCHANGED << workers, tx, opening >>
        \/ CollectOne /\ UNCHANGED << workers, tx, opening >>
        \/ RelateOne /\ UNCHANGED << workers, tx, opening >>
        \/ LoopDone /\ UNCHANGED << workers, tx, opening >>
        \/ Media /\ UNCHANGED << workers, tx, opening >>
        \/ Close /\ UNCHANGED << workers, tx, opening >>
        \/ Catch /\ UNCHANGED << workers, tx, opening >>
        \/ Finally /\ UNCHANGED << workers, tx, opening >>

Spec == CallerInit /\ [][Next]_vars

(***************************************************************************)
(* FairSpec: runs started from the tray or by start-collection against one *)
(* remote site.  The event loop runs every continuation whose await has    *)
(* settled, and every navigation, selector wait, fetch and store call of   *)
(* the run settles or times out: the steps of the run are weakly fair.     *)
(***************************************************************************)
FairInit == Init /\ remote = [ feed |-> << 2, 1 >>, conv |-> << 1, 2 >>, first |-> 2, content |-> 1 ]

FairNext == \/ TrayStart("incremental") /\ UNCHANGED << workers, tx, opening >>
            \/ IpcStart("historical") /\ UNCHANGED << workers, tx, opening >>
            \/ BrowserGone /\ UNCHANGED << workers, tx, opening >>
            \/ Launch /\ UNCHANGED << workers, tx, opening >>
            \/ Navigate /\ UNCHANGED << workers, tx, opening >>
            \/ Paginate /\ UNCHANGED << workers, tx, opening >>
            \/ Extract /\ UNCHANGED << workers, tx, opening >>
            \/ PersistOne /\ UNCHANGED << workers, tx, opening >>
            \/ DiscoverOne /\ UNCHANGED << workers, tx, opening >>
            \/ CollectOne /\ UNCHANGED << workers, tx, opening >>
            \/ RelateOne /\ UNCHANGED << workers, tx, opening >>
            \/ LoopDone /\ UNCHANGED << workers, tx, opening >>
            \/ Media /\ UNCHANGED << workers, tx, opening >>
            \/ Close /\ UNCHANGED << workers, tx, opening >>
            \/ Catch /\ UNCHANGED << workers, tx, opening >>
            \/ Finally /\ UNCHANGED << workers, tx, opening >>

FairSpec == FairInit /\ [][FairNext]_vars /\ WF_vars(RunStep)

(***************************************************************************)
(* StoreSpec: successive runs started from the tray against every remote   *)
(* site of the model, which may change between two runs, as may the clock. *)
(***************************************************************************)
StoreNext == \/ TrayStart("incremental") /\ UNCHANGED << workers, tx, opening >>
             \/ BrowserGone /\ UNCHANGED << workers, tx, opening >>
             \/ Launch /\ UNCHANGED << workers, tx, opening >>
             \/ Navigate /\ UNCHANGED << workers, tx, opening >>
             \/ Paginate /\ UNCHANGED << workers, tx, opening >>
             \/ Extract /\ UNCHANGED << workers, tx, opening >>
             \/ PersistOne /\ UNCHANGED << workers, tx, opening >>
             \/ DiscoverOne /\ UNCHANGED << workers, tx, opening >>
             \/ CollectOne /\ UNCHANGED << workers, tx, opening >>
             \/ RelateOne /\ UNCHANGED << workers, tx, opening >>
             \/ LoopDone /\ UNCHANGED << workers, tx, opening >>
             \/ Media /\ UNCHANGED << workers, tx, opening >>
             \/ Close /\ UNCHANGED << workers, tx, opening >>
             \/ Catch /\ UNCHANGED << workers, tx, opening >>
             \/ Finally /\ UNCHANGED << workers, tx, opening >>
             \/ RemoteChange /\ UNCHANGED << workers, tx, opening >>
             \/ ClockSetBack /\ UNCHANGED << workers, tx, opening >>

StoreSpec == Init /\ [][StoreNext]_vars

(***************************************************************************)
(* ThreadSpec: successive runs started from the tray in an environment     *)
(* that fails nothing, against a conversation by one author whose page     *)
(* shows two or three members and gains or loses a member between two      *)
(* runs.                                                                   *)
(***************************************************************************)
ThreadConvPages == { << 1 >>, << 1, 2 >>, << 1, 4 >>, << 1, 4, 2 >> }
ThreadRemotes == [ feed : { << 1 >>, << 2, 1 >> }, conv : ThreadConvPages, first : { 2 }, content : { 1 } ]

ThreadInit == /\ isCollecting = FALSE
              /\ currentBrowserContext = "null"
              /\ browser = "none"
              /\ lockFile = FALSE
              /\ trayIsCollecting = FALSE
              /\ collectionState = [ isCollecting |-> FALSE, lastCollection |-> 0, error |-> FALSE ]
              /\ lastReply = "none"
              /\ run = IdleRun
              /\ db = EmptyTables
              /\ files = {}
              /\ remote \in ThreadRemotes
              /\ clock = ClockEpoch
              /\ env = [ failures |-> MaxFailures, runs |-> 0, remoteChanges |-> 0, clockSteps |-> 0 ]
              /\ workers = << >>
              /\ tx = NoInsert
              /\ opening = Opened
              /\ h = InitHistory

\* Between two runs the author adds a reply to the conversation or deletes one.
ConvChange == /\ run.pc = "idle" /\ env.runs > 0 /\ env.remoteChanges < MaxRemoteChanges
              /\ \E c \in ThreadConvPages \ {remote.conv} : remote' = [remote EXCEPT !.conv = c]
              /\ env' = [env EXCEPT !.remoteChanges = @ + 1]
              /\ UNCHANGED << isCollecting, currentBrowserContext, browser, lockFile, trayIsCollecting, collectionState, lastReply,
                              run, db, files, clock, h >>

ThreadNext == \/ TrayStart("incremental") /\ UNCHANGED << workers, tx, opening >>
              \/ Launch /\ UNCHANGED << workers, tx, opening >>
              \/ Navigate /\ UNCHANGED << workers, tx, opening >>
              \/ Paginate /\ UNCHANGED << workers, tx, opening >>
              \/ Extract /\ UNCHANGED << workers, tx, opening >>
              \/ PersistOne /\ UNCHANGED << workers, tx, opening >>
              \/ DiscoverOne /\ UNCHANGED << workers, tx, opening >>
              \/ CollectOne /\ UNCHANGED << workers, tx, opening >>
              \/ RelateOne /\ UNCHANGED << workers, tx, opening >>
              \/ LoopDone /\ UNCHANGED << workers, tx, opening >>
              \/ Media /\ UNCHANGED << workers, tx, opening >>
              \/ Close /\ UNCHANGED << workers, tx, opening >>
              \/ Finally /\ UNCHANGED << workers, tx, opening >>
              \/ ConvChange /\ UNCHANGED << workers, tx, opening >>

ThreadSpec == ThreadInit /\ [][ThreadNext]_vars

(***************************************************************************)
(* ScrollSpec: the scroll loop of a run started by start-collection, on a  *)
(* likes page whose feed is long and reduced to the count of the articles  *)
(* rendered; every scroll may bring one more article.  A stop request may  *)
(* arrive at any time.                                                     *)
(***************************************************************************)
ScrollInit == /\ isCollecting = TRUE
              /\ currentBrowserContext = "context"
              /\ browser = "open"
              /\ lockFile = TRUE
              /\ trayIsCollecting = FALSE
              /\ collectionState = [ isCollecting |-> TRUE, lastCollection |-> 0, error |-> FALSE ]
              /\ lastReply = "accepted"
              /\ \E mode \in Modes : \E n \in 1..2 :
                   run = [IdleRun EXCEPT !.pc = "paginate", !.mode = mode, !.owner = "ipc", !.i = 1, !.articles = n]
              /\ db = EmptyTables
              /\ files = {}
              /\ remote = [ feed |-> << 2, 1 >>, conv |-> << 1, 2 >>, first |-> 2, content |-> 1 ]
              /\ clock = ClockEpoch + InitialSettleMs
              /\ env = [ failures |-> 0, runs |-> 1, remoteChanges |-> 0, clockSteps |-> 0 ]
              /\ workers = << >>
              /\ tx = NoInsert
              /\ opening = Opened
              /\ h = [InitHistory EXCEPT !.active = 1, !.stages = << "launch", "navigate", "paginate" >>,
                                         !.startRemote = << remote >>]

ScrollNext == \/ Scroll(0..1) /\ UNCHANGED << workers, tx, opening >>
              \/ IpcStop /\ UNCHANGED << workers, tx, opening >>

ScrollSpec == ScrollInit /\ [][ScrollNext]_vars

(***************************************************************************)
(* MediaSpec: processMediaItems invoked twice side by side on a store that *)
(* holds posts 1 and 2; the two invocations interleave at their awaits     *)
(* (mediaExists, downloadMedia, insertMedia).                              *)
(***************************************************************************)
MediaItems == [ tweetId : {1, 2}, url : Urls, mediaType : {"image"} ]
MediaLists == {<< a >> : a \in MediaItems} \cup {<< a, b >> : a \in MediaItems, b \in MediaItems}

StoredPosts == [EmptyTables EXCEPT !.tweets = {[ id |-> p, content |-> 1, like_order |-> ClockEpoch - p,
                                                is_thread_start |-> 0, thread_length |-> 1 ] : p \in {1, 2}}]

NewWorker(items) == [ items |-> items, k |-> 1, pc |-> "check", results |-> << >>,
                      stats |-> [NoStats EXCEPT !.total = Len(items)] ]

MediaInit == /\ isCollecting = FALSE
             /\ currentBrowserContext = "null"
             /\ browser = "none"
             /\ lockFile = FALSE
             /\ trayIsCollecting = FALSE
             /\ collectionState = [ isCollecting |-> FALSE, lastCollection |-> 0, error |-> FALSE ]
             /\ lastReply = "none"
             /\ run = IdleRun
             /\ db = StoredPosts
             /\ files = {}
             /\ remote \in {r \in Remotes : r.feed = << >> /\ r.conv = << 1 >> /\ r.first = 2 /\ r.content = 1}
             /\ clock = ClockEpoch
             /\ env = [ failures |-> 0, runs |-> 0, remoteChanges |-> 0, clockSteps |-> 0 ]
             /\ workers \in {<< NewWorker(a), NewWorker(b) >> : a \in MediaLists, b \in {<< m >> : m \in MediaItems}}
             /\ tx = NoInsert
             /\ opening = Opened
             /\ h = InitHistory

\* The worker goes on to its next item, or is done.
NextItem(wk) == [wk EXCEPT !.k = @ + 1, !.pc = IF wk.k + 1 > Len(wk.items) THEN "done" ELSE "check"]

\* An invocation that records the row of an unrecorded item without
\* downloading it.
RecordUnfetched(w) == /\ workers[w].pc = "check"
                      /\ LET item == workers[w].items[workers[w].k]
                         IN workers' = [workers EXCEPT ![w] = IF MediaExists(db, item.tweetId, item.url)
                                                              THEN NextItem(ItemSkipped(@))
                                                              ELSE [@ EXCEPT !.pc = "insert"]]
                      /\ UNCHANGED << db, files, env >>

\* Lines 155-166: await mediaExists(item.tweetId, item.url).
MediaCheck(w) == /\ workers[w].pc = "check"
                 /\ LET item == workers[w].items[workers[w].k]
                    IN workers' = [workers EXCEPT ![w] = IF MediaExists(db, item.tweetId, item.url)
                                                         THEN NextItem(ItemSkipped(@))
                                                         ELSE [@ EXCEPT !.pc = "download"]]
                 /\ UNCHANGED << db, files, env >>

\* Line 78: fetch(finalUrl) is called with the URL alone: no signal, no
\* timer, nothing in downloadMedia that settles the promise of a fetch the
\* server never answers.
FetchTimeout == FALSE

\* Line 168: await downloadMedia(item.url, item.tweetId): the fetch, then the
\* file.  The server answers, answers with an error, or stays silent; a
\* silent fetch is given up only by a timeout.
MediaDownload(w) == /\ LET item == workers[w].items[workers[w].k]
                       IN \/ /\ workers[w].pc = "download"
                             /\ files' = files \cup {LocalPath(item)}
                             /\ workers' = [workers EXCEPT ![w].pc = "insert"]
                             /\ env' = env
                          \/ /\ workers[w].pc = "download"
                             /\ CanFail
                             /\ workers' = [workers EXCEPT ![w] = NextItem(ItemFailed(@))]
                             /\ env' = Failed
                             /\ files' = files
                          \/ /\ workers[w].pc = "download"
                             /\ CanFail
                             /\ workers' = [workers EXCEPT ![w].pc = "fetching"]
                             /\ env' = Failed
                             /\ files' = files
                          \/ /\ workers[w].pc = "fetching"
                             /\ FetchTimeout
                             /\ workers' = [workers EXCEPT ![w] = NextItem(ItemFailed(@))]
                             /\ UNCHANGED << env, files >>
                    /\ db' = db

\* Lines 169-191: await insertMedia(...).
MediaInsert(w) == /\ workers[w].pc = "insert"
                  /\ LET item == workers[w].items[workers[w].k]
                         res == InsertMedia(db, item, LocalPath(item))
                     IN \/ /\ res.ok
                           /\ db' = res.t
                           /\ workers' = [workers EXCEPT ![w] = NextItem(ItemSucceeded(@))]
                           /\ env' = env
                        \/ /\ ~res.ok \/ CanFail
                           /\ db' = db
                           /\ workers' = [workers EXCEPT ![w] = NextItem(ItemFailed(@))]
                           /\ env' = IF res.ok THEN Failed ELSE env
                  /\ files' = files

\* No run of collectLikes is in progress while the two invocations are.
NoRun == UNCHANGED << isCollecting, currentBrowserContext, browser, lockFile, trayIsCollecting, collectionState, lastReply,
                      run, remote, clock, tx, opening, h >>

MediaNext == \/ \E w \in 1..2 : MediaCheck(w) /\ NoRun
             \/ \E w \in 1..2 : MediaDownload(w) /\ NoRun
             \/ \E w \in 1..2 : MediaInsert(w) /\ NoRun

MediaSpec == MediaInit /\ [][MediaNext]_vars

(***************************************************************************)
(* TxSpec: insertTweet (db.ts 93-153) statement by statement, on the one   *)
(* connection _db that every function of db.ts gets from initDatabase,     *)
(* and the query of searchTweets / getTweets issued on the same connection *)
(* between two of its statements.  A statement issued on a connection      *)
(* that has a transaction open runs inside that transaction.               *)
(***************************************************************************)
MaxTx == 2
MaxReads == 2

\* The posts handed to insertTweet: extracted from the feed (post 3 has a
\* link in its text, post 1 has none).
TxTweets == {ExtractTweet(el, 0, ClockEpoch, 0, 1) : el \in {1, 3}}

TxInit == /\ isCollecting = FALSE
          /\ currentBrowserContext = "null"
          /\ browser = "none"
          /\ lockFile = FALSE
          /\ trayIsCollecting = FALSE
          /\ collectionState = [ isCollecting |-> FALSE, lastCollection |-> 0, error |-> FALSE ]
          /\ lastReply = "none"
          /\ run = IdleRun
          /\ db = EmptyTables
          /\ files = {}
          /\ remote \in {r \in Remotes : r.feed = << 3, 1 >> /\ r.conv = << 1 >> /\ r.first = 2 /\ r.content = 1}
          /\ clock = ClockEpoch
          /\ env = [ failures |-> 0, runs |-> 0, remoteChanges |-> 0, clockSteps |-> 0 ]
          /\ workers = << >>
          /\ tx = NoInsert
          /\ opening = Opened
          /\ h = InitHistory

\* The statement failed: the catch block is next.
TxFailed(t) == [t EXCEPT !.pc = "rollback"]

\* Line 100: await db.run('BEGIN TRANSACTION').
TxBegin == /\ tx.pc = "idle" /\ tx.n < MaxTx
           /\ \E tweet \in TxTweets :
                \/ /\ tx' = [tx EXCEPT !.pc = "row", !.tweet = tweet, !.snapshot = db, !.n = @ + 1]
                   /\ env' = env
                \/ /\ CanFail
                   /\ tx' = [tx EXCEPT !.pc = "rollback", !.tweet = tweet, !.snapshot = db, !.n = @ + 1]
                   /\ env' = Failed
           /\ db' = db

\* Lines 103-126: await db.run(INSERT INTO tweets ...).
TxRow == /\ tx.pc = "row"
         /\ LET row == InsertTweetRow(db, tx.tweet)
            IN \/ /\ row.ok
                  /\ db' = row.t
                  /\ tx' = [tx EXCEPT !.pc = IF Len(tx.tweet.links) > 0 THEN "links" ELSE "commit", !.k = 1]
                  /\ env' = env
               \/ /\ ~row.ok \/ CanFail
                  /\ db' = db
                  /\ tx' = TxFailed(tx)
                  /\ env' = IF row.ok THEN Failed ELSE env

\* Lines 129-144: await db.run(INSERT INTO links ...) for the next link.
TxLink == /\ tx.pc = "links"
          /\ LET res == InsertLinkRow(db, tx.tweet.id, tx.tweet.links[tx.k])
             IN IF res.ok
                THEN /\ db' = res.t
                     /\ tx' = [tx EXCEPT !.pc = IF tx.k = Len(tx.tweet.links) THEN "commit" ELSE "links", !.k = @ + 1]
                     /\ env' = env
                ELSE /\ db' = db
                     /\ tx' = TxFailed(tx)
                     /\ env' = env

\* Line 146: await db.run('COMMIT').
TxCommit == /\ tx.pc = "commit"
            /\ \/ /\ tx' = [tx EXCEPT !.pc = "idle"]
                  /\ env' = env
               \/ /\ CanFail
                  /\ tx' = TxFailed(tx)
                  /\ env' = Failed
            /\ db' = db

\* Lines 149-152: the catch block: await db.run('ROLLBACK'), then rethrow.
TxRollback == /\ tx.pc = "rollback"
              /\ db' = Rollback(tx.snapshot, db)
              /\ tx' = [tx EXCEPT !.pc = "idle",
                                  !.undone = IF HasTweet(db, tx.tweet.id) /\ ~HasTweet(tx.snapshot, tx.tweet.id)
                                             THEN @ \cup {<< tx.n, tx.tweet.id >>} ELSE @]
              /\ env' = env

RECURSIVE LinksOfPost(_, _)
\* LEFT JOIN links l ON t.id = l.tweet_id ... GROUP BY t.id: the link rows of a post.
LinksOfPost(rows, id) == IF rows = << >> THEN << >>
                         ELSE (IF Head(rows).tweet_id = id THEN << Head(rows) >> ELSE << >>) \o LinksOfPost(Tail(rows), id)

\* searchTweets / getTweets (db.ts 156-223): every post with its links.
SearchTweets(T) == {[ id |-> r.id, links |-> Len(LinksOfPost(T.links, r.id)) ] : r \in T.tweets}

\* A query on the shared connection, between any two statements of insertTweet.
TxRead == /\ tx.reads < MaxReads
          /\ tx' = [tx EXCEPT !.reads = @ + 1,
                              !.seen = @ \cup {[ n |-> tx.n, id |-> r.id, links |-> r.links ] : r \in SearchTweets(db)}]
          /\ UNCHANGED << db, env >>

\* Nothing but the connection is touched.
NoCollector == UNCHANGED << isCollecting, currentBrowserContext, browser, lockFile, trayIsCollecting, collectionState, lastReply,
                            run, files, remote, clock, workers, opening, h >>

TxNext == \/ TxBegin /\ NoCollector
          \/ TxRow /\ NoCollector
          \/ TxLink /\ NoCollector
          \/ TxCommit /\ NoCollector
          \/ TxRollback /\ NoCollector
          \/ TxRead /\ NoCollector

TxSpec == TxInit /\ [][TxNext]_vars

(***************************************************************************)
(* OpenSpec: initDatabase (db.ts 225-359) on a store file that is absent,  *)
(* empty, holds data or is corrupt, in an environment that can corrupt the *)
(* file and fail a file-system or database call.  opening.file is the      *)
(* file, opening.cached is _db, depth the initDatabase calls nested in the *)
(* call in progress.                                                       *)
(***************************************************************************)
MaxCalls == 3
MaxCorruptions == 2

\* A catch block that takes every error for corruption.
AnyErrorRecovers(code) == TRUE

\* Line 346: error.code === 'SQLITE_CORRUPT'.
IsCorruption(code) == code = "SQLITE_CORRUPT"

OpenInit == /\ isCollecting = FALSE
            /\ currentBrowserContext = "null"
            /\ browser = "none"
            /\ lockFile = FALSE
            /\ trayIsCollecting = FALSE
            /\ collectionState = [ isCollecting |-> FALSE, lastCollection |-> 0, error |-> FALSE ]
            /\ lastReply = "none"
            /\ run = IdleRun
            /\ db = EmptyTables
            /\ files = {}
            /\ remote \in {r \in Remotes : r.feed = << >> /\ r.conv = << 1 >> /\ r.first = 2 /\ r.content = 1}
            /\ clock = ClockEpoch
            /\ env = [ failures |-> 0, runs |-> 0, remoteChanges |-> 0, clockSteps |-> 0 ]
            /\ workers = << >>
            /\ tx = NoInsert
            /\ opening \in {[Opened EXCEPT !.file = f, !.cached = FALSE, !.corruptions = IF f = "corrupt" THEN 1 ELSE 0] :
                               f \in {"absent", "empty", "data", "corrupt"}}
            /\ h = InitHistory

\* The promise of the outermost initDatabase settles.
Returns(o) == [o EXCEPT !.pc = "idle", !.result = "returned"]
Raises(o) == [o EXCEPT !.pc = "idle", !.result = "raised", !.raised = @ + 1]

\* Lines 225-228: a call of initDatabase; with _db set it returns _db.
InitDatabase == /\ opening.pc = "idle" /\ opening.calls < MaxCalls
                /\ opening' = IF opening.cached
                              THEN [Returns(opening) EXCEPT !.calls = @ + 1, !.depth = 0, !.error = "none"]
                              ELSE [opening EXCEPT !.pc = "open", !.calls = @ + 1, !.depth = 0, !.result = "none", !.error = "none"]
                /\ env' = env

\* Lines 230-241: ensureDataDirectories (outside the try block), then open
\* with OPEN_READWRITE | OPEN_CREATE, which creates an absent file.
OpenFile == /\ opening.pc = "open"
            /\ \/ /\ opening' = [opening EXCEPT !.pc = "init", !.file = IF @ = "absent" THEN "empty" ELSE @]
                  /\ env' = env
               \/ /\ CanFail
                  /\ opening' = [Raises(opening) EXCEPT !.error = "OTHER"]
                  /\ env' = Failed
               \/ /\ CanFail
                  /\ opening' = [opening EXCEPT !.pc = "catch", !.error = "OTHER"]
                  /\ env' = Failed

\* Lines 243-342: the PRAGMA and the CREATE TABLE statements, then _db = db.
InitSchema == /\ opening.pc = "init"
              /\ IF opening.file = "corrupt"
                 THEN /\ opening' = [opening EXCEPT !.pc = "catch", !.error = "SQLITE_CORRUPT"]
                      /\ env' = env
                 ELSE \/ /\ opening' = [Returns(opening) EXCEPT !.cached = TRUE]
                         /\ env' = env
                      \/ /\ CanFail
                         /\ opening' = [opening EXCEPT !.pc = "catch", !.error = "OTHER"]
                         /\ env' = Failed

\* Lines 343-358: the catch block: on corruption unlink the file and return
\* initDatabase(); if the unlink throws, or on another error, throw error.
OpenCatch == /\ opening.pc = "catch"
             /\ IF IsCorruption(opening.error)
                THEN \/ /\ opening' = [opening EXCEPT !.file = "absent", !.cached = FALSE, !.unlinks = @ + 1,
                                                       !.depth = @ + 1, !.pc = "open", !.error = "none"]
                        /\ env' = env
                     \/ /\ CanFail
                        /\ opening' = Raises(opening)
                        /\ env' = Failed
                ELSE /\ opening' = Raises(opening)
                     /\ env' = env

\* The file is damaged on disk.
Corrupt == /\ opening.file \in {"empty", "data"} /\ opening.corruptions < MaxCorruptions
           /\ opening' = [opening EXCEPT !.file = "corrupt", !.corruptions = @ + 1]
           /\ env' = env

\* Line 15: let _db = null: the application is started again.
Restart == /\ opening.pc = "idle" /\ opening.cached /\ opening.calls < MaxCalls
           /\ opening' = [opening EXCEPT !.cached = FALSE]
           /\ env' = env

\* Nothing but the store file and _db is touched.
NoStoreUse == UNCHANGED << isCollecting, currentBrowserContext, browser, lockFile, trayIsCollecting, collectionState, lastReply,
                           run, db, files, remote, clock, workers, tx, h >>

OpenNext == \/ InitDatabase /\ NoStoreUse
            \/ OpenFile /\ NoStoreUse
            \/ InitSchema /\ NoStoreUse
            \/ OpenCatch /\ NoStoreUse
            \/ Corrupt /\ NoStoreUse
            \/ Restart /\ NoStoreUse

OpenSpec == OpenInit /\ [][OpenNext]_vars

(***************************************************************************)
(* Properties.                                                             *)
(***************************************************************************)
StoredIds(tweets) == {r.id : r \in tweets}
Count(rows, x) == Cardinality({k \in DOMAIN rows : rows[k] = x})
\* The same rows, whatever their order.
SameRowSeq(a, b) == Len(a) = Len(b) /\ \A x \in SeqRange(a) \cup SeqRange(b) : Count(a, x) = Count(b, x)
SameRows(A, B) == /\ A.tweets = B.tweets
                  /\ SameRowSeq(A.links, B.links)
                  /\ SameRowSeq(A.media, B.media)
                  /\ SameRowSeq(A.thread_tweets, B.thread_tweets)

\* C1: at most one invocation of collectLikes is past the isCollecting guard
\* in every reachable state, and an invocation made from the tray or from the
\* start-collection handler while an earlier one has not finished returns
\* without launching a browser, navigating or writing to the store.
SingleFlight == /\ [](h.active <= 1)
                /\ [][(isCollecting /\ \E mode \in Modes : TrayStart(mode) \/ IpcStart(mode))
                        => UNCHANGED << isCollecting, run, browser, currentBrowserContext, db, files >>]_vars

\* An invocation was refused while the first run is in its body, past the launch.
SingleFlightSeen == h.refused /\ h.active = 1 /\ run.pc \in {"persist", "discover", "collect", "relate", "media"}

\* C2: the store holds at most one post row per id, its content and like_order
\* are those of its first insertion, and insertTweet is never called for an id
\* that is stored; only is_thread_start and thread_length may differ.
FirstSeenWins == /\ ~h.insertOnExisting
                 /\ \A a \in db.tweets : \A b \in db.tweets : a.id = b.id => a = b
                 /\ \A r \in db.tweets : \E f \in h.firstRows : f.id = r.id /\ f.content = r.content /\ f.like_order = r.like_order

\* A stored post was extracted again with other content and another rank, and
\* the persistence loop is over.
FirstSeenWinsSeen == /\ run.pc = "discover"
                     /\ \E r \in db.tweets : \E k \in 1..Len(run.tweets) :
                          /\ r.id \in StoredIds(h.startTweets)
                          /\ run.tweets[k].id = r.id
                          /\ run.tweets[k].content # r.content
                          /\ run.tweets[k].like_order # r.like_order

\* C3: the media table holds at most one row per (tweet_id, original_url), also
\* when two invocations of processMediaItems for the same pair interleave at
\* their awaits.
OneMediaRowPerUrl == \A i \in 1..Len(db.media) : \A j \in 1..Len(db.media) :
                        (db.media[i].tweet_id = db.media[j].tweet_id /\ db.media[i].original_url = db.media[j].original_url) => i = j

\* C4: a second run against the same feed and conversation pages, with no
\* failure in either run, leaves the rows of tweets, links, media and
\* thread_tweets as the first run left them.
IdempotentRerun == \A k \in 2..Len(h.endDb) :
                      (h.endClean[k - 1] /\ h.endClean[k] /\ h.startRemote[k - 1] = h.startRemote[k])
                          => SameRows(h.endDb[k], h.endDb[k - 1])

\* Two runs without failure against the same pages, the first of which stored
\* posts, a thread and media.
IdempotentRerunSeen == /\ Len(h.endDb) = 2
                       /\ h.endClean[1] /\ h.endClean[2]
                       /\ h.startRemote[1] = h.startRemote[2]
                       /\ Cardinality(h.endDb[1].tweets) >= 2
                       /\ Len(h.endDb[1].thread_tweets) >= 2
                       /\ Len(h.endDb[1].media) >= 1

\* C5: insertTweet is all-or-nothing: when the post row, a link row or another
\* statement of it fails, the error is raised and the store is as it was
\* before the call.
TransactionalInsert == (h.lastTx.called /\ h.lastTx.raised) => h.lastTx.post = h.lastTx.pre

\* insertTweet of a post with a link raised after its post row was inserted.
TransactionalInsertSeen == /\ h.lastTx.called /\ h.lastTx.raised
                           /\ h.lastTx.links >= 1
                           /\ h.lastTx.failAt \in {0, 3}
                           /\ ~HasTweet(h.lastTx.pre, h.lastTx.tweet)

\* C6: per conversation and run, either the root flag, the length and every
\* membership row of the observed member list were written, or none of them.
ThreadAllOrNothing == \A x \in h.threads : \/ x.root /\ x.rows = Len(x.members)
                                           \/ ~x.root /\ x.rows = 0

\* C7: every post inserted in a run has a strictly higher like_order than every
\* post that was in the store when the run began.
RankAboveEarlier == \A r \in db.tweets : r.id \notin StoredIds(h.startTweets)
                       => \A e \in h.startTweets : r.like_order > e.like_order

\* C8: collectLikes never rejects: whatever failed, the promise resolves, and
\* once the run is over no flag stands in the way of the next start.
NeverRejects == /\ h.outcome # "rejected"
                /\ run.pc = "idle" => (~isCollecting /\ ~trayIsCollecting /\ ~collectionState.isCollecting)

\* A run that failed while the browser was gone is over, and the next run has started.
NeverRejectsSeen == /\ Len(h.endClean) >= 1 /\ ~h.endClean[1]
                    /\ browser = "gone"
                    /\ run.pc = "launch" /\ h.active = 1

StageOrder == << "launch", "navigate", "paginate", "extract", "persist", "discover", "collect", "relate", "media", "close", "finally" >>
\* The stages entered are a prefix of StageOrder, then (after an error) "finally".
InStageOrder(stages) == \A k \in 1..Len(stages) : stages[k] = StageOrder[k] \/ (k = Len(stages) /\ stages[k] = "finally")
\* No store write before extraction has finished.
WritesAfterExtraction == \A e \in h.events : e[1] \in {"persist", "collect", "relate", "media"}

RunningReported == GetStats.isCollecting <=> BodyExecuting

\* C12: a start-collection request is answered 'accepted' only if it starts
\* a new run, and it is rejected whenever a run is active.
StartAnswered == [][(\E mode \in Modes : IpcStart(mode))
                    => /\ lastReply' = "accepted" => h'.active = h.active + 1
                       /\ BodyExecuting => lastReply' = "rejected"]_vars

\* C13: after a run has ended because a stage failed, and until the next run
\* starts, get-stats reports a last error.
ErrorReported == (~BodyExecuting /\ h.caught) => GetStats.error

\* C14: the time of the last collection changes only at the end of a run
\* that completed every stage without an error.
LastCollectionOnSuccess == [][GetStats.lastCollection' # GetStats.lastCollection
                              => run.pc = "finally" /\ ~h.caught]_vars

\* C15: once stop-collection has been requested while the run is paginating,
\* the run performs at most one further scroll.
StopWithinOneScroll == h.stopAt # -1 => h.scrolls <= h.stopAt + 1

\* C16: the run never scrolls more often than the maximum of its mode, it is
\* still in the loop only if the maximum is not reached and fewer than 3
\* scrolls in a row have shown no new content, and it has left the loop only
\* if one of the two has happened.
PaginationStops == /\ h.scrolls <= MaxScrolls(run.mode)
                   /\ run.pc = "paginate" => h.scrolls < MaxScrolls(run.mode) /\ h.quiet < MaxNoNewContentAttempts
                   /\ run.pc # "paginate" => h.scrolls = MaxScrolls(run.mode) \/ h.quiet >= MaxNoNewContentAttempts

\* The parts of C16 that do not depend on what the first scroll is compared with.
PaginationBounded == /\ h.scrolls <= MaxScrolls(run.mode)
                     /\ h.scrolls = run.scrollCount \/ run.pc # "paginate"
                     /\ run.pc = "paginate" => h.scrolls < MaxScrolls(run.mode)
                     /\ run.pc # "paginate" => h.scrolls = MaxScrolls(run.mode) \/ h.quiet >= MaxNoNewContentAttempts
                     /\ run.pc = "paginate" => h.quiet <= MaxNoNewContentAttempts

\* The results of a call of processMediaItems account for every item of its
\* list, and its failed count is the number of items that raised.
EveryItemProcessed(m) == /\ Len(m.results) = m.total
                         /\ m.stats.completed = m.total
                         /\ m.stats.successful + m.stats.failed + m.stats.skipped = m.total
                         /\ m.stats.failed = m.raised
                         /\ Count(m.results, FALSE) = m.raised

\* C17: whatever items of a list fail, processMediaItems processes every
\* item of the list, reports as failed exactly the items that raised, and
\* returns to the run, which goes on to its next step instead of its catch
\* block.
MediaFailuresContained == [][h'.lastMedia.called
                             => /\ EveryItemProcessed(h'.lastMedia)
                                /\ h'.lastMedia # h.lastMedia => run'.pc \notin {"catch", "finally", "idle"}]_vars

\* A run has ended without entering its catch block after a call in which an
\* item failed and a later item of the same list was recorded.
MediaFailuresContainedSeen == /\ run.pc = "idle" /\ ~h.caught /\ h.outcome = "resolved"
                              /\ h.lastMedia.called /\ h.lastMedia.raised >= 1
                              /\ \E j, k \in 1..Len(h.lastMedia.results) :
                                    j < k /\ ~h.lastMedia.results[j] /\ h.lastMedia.results[k]
                              /\ h.lastMedia.stats.successful >= 1

\* C18: a media fetch that receives no response is abandoned: the invocation
\* that awaits it can go on to count the item as failed.
FetchAbandoned == \A w \in DOMAIN workers : workers[w].pc = "fetching" => ENABLED MediaDownload(w)

\* C19: no download is started and no row written for a post and URL whose
\* media row is recorded, in the same list, the same run or a later run: the
\* table never holds a second row with the tweet_id and original_url of an
\* earlier one.
NoRefetch == /\ ~h.refetched
             /\ \A j \in 1..Len(db.media) : ~HasMedia([db EXCEPT !.media = SubSeq(@, 1, j - 1)],
                                                       db.media[j].tweet_id, db.media[j].original_url)

\* A call has recorded a row for an item and skipped a later item of its
\* list with the same post and URL.
NoRefetchSeen == /\ h.lastMedia.called /\ h.lastMedia.stats.skipped >= 1 /\ h.lastMedia.stats.successful >= 1
                 /\ Len(db.media) > h.startMedia

\* The posts of the media rows written since the run began.
NewMediaPosts == {db.media[k].tweet_id : k \in (h.startMedia + 1)..Len(db.media)}

\* C20: the posts whose media the run has fetched or recorded were inserted
\* by this run: none of them was in the store when the run began.
MediaOfNewPosts == \A p \in h.mediaPosts \cup NewMediaPosts : p \in StoredIds(db.tweets) \ StoredIds(h.startTweets)

\* A run has fetched the media of a post it inserted while a post that was
\* stored before it began, extracted again and without any media row, got
\* no fetch and no row.
MediaOfNewPostsSeen == /\ run.pc \in {"close", "finally", "idle"} /\ h.mediaPosts # {} /\ NewMediaPosts # {}
                       /\ \E k \in 1..Len(run.tweets) :
                             LET t == run.tweets[k]
                             IN /\ t.id \in StoredIds(h.startTweets)
                                /\ Len(t.media) > 0
                                /\ ~\E m \in 1..Len(db.media) : db.media[m].tweet_id = t.id

\* The persistence loop of the run is over and the environment has failed
\* nothing in the run.
PersistedClean == run.pc \in {"discover", "collect", "relate", "media", "close"} /\ h.clean

\* The rows of links of a post, in the order of their insertion.
RECURSIVE LinkRowsOf(_, _)
LinkRowsOf(rows, id) == IF rows = << >> THEN << >>
                        ELSE (IF Head(rows).tweet_id = id THEN << Head(rows) >> ELSE << >>) \o LinkRowsOf(Tail(rows), id)

\* C21: once the persistence loop is over, a feed post that was not in the
\* store when the run began and carries k >= 1 extracted links has its row
\* and exactly k rows of links, in extraction order, each with the URL as it
\* was seen and a resolved URL that is not null.
LinksStored == PersistedClean =>
    \A k \in 1..Len(run.tweets) :
       LET tweet == run.tweets[k]
           rows == LinkRowsOf(db.links, tweet.id)
       IN (tweet.id # EmptyId /\ Len(tweet.links) >= 1 /\ ~HasTweet([db EXCEPT !.tweets = h.startTweets], tweet.id))
          => /\ HasTweet(db, tweet.id)
             /\ Len(rows) = Len(tweet.links)
             /\ \A j \in 1..Len(rows) : rows[j].original_url = tweet.links[j].value /\ rows[j].resolved_url # Undefined

\* The run in progress has not reached the loaded feed: the waits of lines
\* 303-391 have not all resolved.
FeedNotLoaded == BodyExecuting /\ "paginate" \notin SeqRange(h.stages)

\* C27: as long as a run has not reached the loaded feed it scrolls nothing,
\* extracts nothing and writes nothing to the store or the media directory,
\* and when it ends in that state the single-flight flag is cleared and the
\* browser context released.
FeedNotLoadedEndsRun == [][FeedNotLoaded
                           => /\ db' = db /\ files' = files
                              /\ h'.scrolls = 0 /\ run'.tweets = << >>
                              /\ run'.pc \in {"launch", "navigate", "paginate", "catch", "finally", "idle"}
                              /\ run'.pc = "paginate" => ~h'.caught /\ browser' = "open" /\ ArticleVisible'
                              /\ run'.pc = "idle" => ~isCollecting' /\ currentBrowserContext' = "null" /\ browser' # "open"]_vars

\* A run whose navigation failed has ended; the flag is cleared, the context
\* released and the store as it was.
FeedNotLoadedEndsRunSeen == /\ run.pc = "idle" /\ h.caught /\ h.active = 0
                            /\ "navigate" \in SeqRange(h.stages) /\ "paginate" \notin SeqRange(h.stages)
                            /\ ~isCollecting /\ currentBrowserContext = "null" /\ browser # "open"
                            /\ db.tweets = h.startTweets

\* The extraction has just returned: the store is still as getHighestLikeOrder read it.
JustExtracted == run.pc = "persist" /\ run.i = 1

\* C28: the post at index k of the reversed batch has the rank base + k,
\* where base is what getHighestLikeOrder returned at the start of the
\* extraction, and of two posts of the batch the one nearer the top of the
\* feed has the strictly higher rank.
RankFromBase == JustExtracted =>
    LET n == Len(run.tweets)
    IN /\ \A k \in 1..n : run.tweets[k].like_order = GetHighestLikeOrder(db) + (k - 1)
       /\ \A a, b \in 1..n : a < b => run.tweets[n + 1 - a].like_order > run.tweets[n + 1 - b].like_order

\* The second half of C28 alone: nearer the top of the feed, higher rank.
NewerRanksHigher == JustExtracted =>
    LET n == Len(run.tweets)
    IN \A a, b \in 1..n : a < b => run.tweets[n + 1 - a].like_order > run.tweets[n + 1 - b].like_order

\* C24: no two stored posts have the same like_order.
RanksUnique == \A r1, r2 \in db.tweets : r1.like_order = r2.like_order => r1.id = r2.id

\* The persistence loop of the run is over.
Persisted == run.pc \in {"discover", "collect", "relate", "media", "close"}

\* C26: once the persistence loop is over, every element extracted from the
\* feed, with or without a parsed id, was in the store when the run began, or
\* has been inserted, or has had its failure logged.
NothingDroppedSilently == Persisted =>
    \A k \in 1..Len(run.tweets) :
       \/ \E r \in h.startTweets : r.id = run.tweets[k].id
       \/ run.tweets[k].id \in run.newTweetIds
       \/ << k, "tweet_process_failed" >> \in h.log

\* The membership rows of a thread root, and the positions they hold.
ThreadRowsOf(T, root) == {k \in 1..Len(T.thread_tweets) : T.thread_tweets[k].thread_id = root}
ThreadRoots(T) == {T.thread_tweets[k].thread_id : k \in 1..Len(T.thread_tweets)}

\* C22: the membership rows of each thread root hold pairwise distinct
\* positions that are exactly 1..n, where n is the number of the rows and the
\* thread_length of the root.
PositionsContiguous == \A root \in ThreadRoots(db) :
    LET rows == ThreadRowsOf(db, root)
        n == Cardinality(rows)
    IN /\ \A j, k \in rows : db.thread_tweets[j].position = db.thread_tweets[k].position => j = k
       /\ {db.thread_tweets[k].position : k \in rows} = 1..n
       /\ \A r \in db.tweets : r.id = root => r.thread_length = n

\* C23: each post is a member of at most one thread root.
MemberOfOneThread == \A j, k \in 1..Len(db.thread_tweets) :
    db.thread_tweets[j].tweet_id = db.thread_tweets[k].tweet_id => db.thread_tweets[j].thread_id = db.thread_tweets[k].thread_id

\* C29: of two members of a thread that the page of its conversation both
\* shows, the one displayed earlier holds the smaller position.
PositionsInDisplayOrder == \A j, k \in 1..Len(db.thread_tweets) :
    LET a == db.thread_tweets[j]
        b == db.thread_tweets[k]
        page == ConvPage(remote, ConvOf(a.thread_id))
    IN (a.thread_id = b.thread_id /\ a.tweet_id \in SeqRange(page) /\ b.tweet_id \in SeqRange(page)
        /\ IndexOf(page, a.tweet_id) < IndexOf(page, b.tweet_id))
       => a.position < b.position

\* The relationship of the thread with this id and these members is written:
\* root flag, length and one membership row per member.
ThreadWritten(T, threadId, members) ==
    /\ \E r \in T.tweets : r.id = threadId /\ r.is_thread_start = 1 /\ r.thread_length = Len(members)
    /\ \A j \in 1..Len(members) : \E k \in 1..Len(T.thread_tweets) :
          T.thread_tweets[k] = [ thread_id |-> threadId, tweet_id |-> members[j], position |-> j ]

\* The third pass of a run in which nothing failed is over.
RelatedClean == run.pc \in {"media", "close"} /\ h.clean

\* C25: a relationship skipped in an earlier run because a member could not
\* be verified is written by a later run in which nothing fails, the liked
\* post is still in the feed and all members of its conversation are stored:
\* root flag, length and all membership rows.
SkippedThreadRetried == RelatedClean => \A k \in 1..Len(run.tweets) :
    LET tweet == run.tweets[k]
        members == ThreadTweets(remote, tweet.conversation_id, AuthorHandle(tweet))
    IN (/\ \E s \in h.skipped : s[1] < env.runs /\ s[2] = tweet.id
        /\ HasConversation(tweet) /\ Len(members) > 1
        /\ \A j \in 1..Len(members) : TweetExists(db, members[j]))
       => ThreadWritten(db, tweet.id, members)

SkippedThreadRetriedSeen == /\ RelatedClean
                            /\ \E k \in 1..Len(run.tweets) : \E s \in h.skipped :
                                 LET tweet == run.tweets[k]
                                     members == ThreadTweets(remote, tweet.conversation_id, AuthorHandle(tweet))
                                 IN /\ s[1] < env.runs /\ s[2] = tweet.id
                                    /\ Len(members) > 1
                                    /\ \A j \in 1..Len(members) : TweetExists(db, members[j])
                                    /\ ThreadWritten(db, tweet.id, members)

\* A post is flagged as a thread root, or a membership row exists, in one
\* table state and not in the other.
RootFlags(T) == {<< r.id, r.thread_length >> : r \in {x \in T.tweets : x.is_thread_start = 1}}
RootsWellFormed(T) == /\ \A r \in T.tweets : r.is_thread_start = 1 => r.thread_length > 1
                      /\ \A k \in 1..Len(T.thread_tweets) :
                            \E r \in T.tweets : r.id = T.thread_tweets[k].thread_id /\ r.is_thread_start = 1

\* C30: every post flagged as a thread start has thread_length > 1, every
\* thread_id of a membership row is a stored post flagged as a thread start,
\* and a step writes a root flag or a membership row only in the third pass,
\* for a conversation with more than one member.
RootsHaveThreads == [][/\ RootsWellFormed(db) /\ RootsWellFormed(db')
                       /\ (RootFlags(db') # RootFlags(db) \/ db'.thread_tweets # db.thread_tweets)
                          => /\ run.pc = "relate" /\ run.i <= Len(run.tweets)
                             /\ Len(ThreadTweets(remote, run.tweets[run.i].conversation_id, AuthorHandle(run.tweets[run.i]))) > 1]_vars

RootsHaveThreadsSeen == /\ run.pc = "media"
                        /\ \E j, k \in 1..Len(run.tweets) :
                             LET one == run.tweets[j]
                                 many == run.tweets[k]
                                 members == ThreadTweets(remote, many.conversation_id, AuthorHandle(many))
                             IN /\ HasConversation(one)
                                /\ Len(ThreadTweets(remote, one.conversation_id, AuthorHandle(one))) = 1
                                /\ \A r \in db.tweets : r.id = one.id => r.is_thread_start = 0
                                /\ \A n \in 1..Len(db.thread_tweets) : db.thread_tweets[n].thread_id # one.id
                                /\ Len(members) > 1
                                /\ ThreadWritten(db, many.id, members)

\* C37: every row of tweets has a non-empty id, whether it was inserted from
\* the feed batch or as a thread member fetched during reconstruction.
NoEmptyIdStored == \A r \in db.tweets : r.id # EmptyId

\* C39: a step of the second pass that inserts a post for the discovered
\* member id M inserts a post with id M and records M as collected.
MemberStoredUnderItsId == [][(run.pc = "collect" /\ db'.tweets # db.tweets)
                             => LET M == run.threadTweetsToCollect[run.i]
                                IN /\ \A r \in db'.tweets \ db.tweets : r.id = M
                                   /\ run'.collectedThreadTweets = run.collectedThreadTweets \cup {M}]_vars

\* C38: every link row and every media row refers to a stored post, and every
\* membership row refers to a root post and a member post that are both stored.
ReferentialIntegrity == /\ \A k \in 1..Len(db.links) : db.links[k].tweet_id \in StoredIds(db.tweets)
                        /\ \A k \in 1..Len(db.media) : db.media[k].tweet_id \in StoredIds(db.tweets)
                        /\ \A k \in 1..Len(db.thread_tweets) : /\ db.thread_tweets[k].thread_id \in StoredIds(db.tweets)
                                                                /\ db.thread_tweets[k].tweet_id \in StoredIds(db.tweets)

ReferentialIntegritySeen == /\ Len(db.media) > 0 /\ Len(db.thread_tweets) > 0
                            /\ \E k \in 1..Len(db.thread_tweets) : db.thread_tweets[k].thread_id # db.thread_tweets[k].tweet_id
                            /\ ReferentialIntegrity

\* C35: in each invocation of processMediaItems, after each processed item
\* completed = successful + failed + skipped = the items processed = the
\* results pushed, with exactly `failed` results unsuccessful; on return
\* completed = total = the length of the list = the length of the results.
CountersConsistent == \A w \in 1..Len(workers) :
    LET wk == workers[w]
    IN /\ wk.stats.completed = wk.stats.successful + wk.stats.failed + wk.stats.skipped
       /\ wk.stats.completed = wk.k - 1
       /\ Len(wk.results) = wk.stats.completed
       /\ Count(wk.results, FALSE) = wk.stats.failed
       /\ Count(wk.results, TRUE) = wk.stats.successful + wk.stats.skipped
       /\ wk.stats.total = Len(wk.items)
       /\ wk.pc = "done" => wk.stats.completed = wk.stats.total /\ Len(wk.results) = Len(wk.items)

CountersConsistentSeen == \E w, v \in 1..Len(workers) : /\ workers[w].pc = "done" /\ workers[v].pc = "done"
                                                        /\ workers[w].stats.skipped >= 1
                                                        /\ workers[w].stats.failed >= 1
                                                        /\ workers[v].stats.successful >= 1

\* The rows of media refer to files that are written.
MediaFilesWritten(T, F) == \A k \in 1..Len(T.media) : T.media[k].local_path \in F

\* C33: every media row refers to a written file, and a step records a media
\* row only for the item of an invocation whose downloadMedia has returned,
\* the file of the item being written before the step; an item whose fetch
\* or file write failed gets no row from its invocation.
FileBeforeRow == [][/\ MediaFilesWritten(db, files) /\ MediaFilesWritten(db', files')
                    /\ db'.media # db.media
                       => \E w \in 1..Len(workers) :
                            LET item == workers[w].items[workers[w].k]
                            IN /\ workers[w].pc = "insert"
                               /\ LocalPath(item) \in files
                               /\ db'.media = Append(db.media, [ tweet_id |-> item.tweetId, media_type_id |-> GetMediaTypeId(item.mediaType),
                                                                 original_url |-> item.url, local_path |-> LocalPath(item) ])
                               /\ workers'[w].results = Append(workers[w].results, TRUE)
                    /\ \A w \in 1..Len(workers) :
                         (workers[w].pc \in {"download", "fetching"} /\ Len(workers'[w].results) > Len(workers[w].results))
                         => db' = db /\ workers'[w].results = Append(workers[w].results, FALSE)]_vars

\* One invocation has recorded an item's row after writing its file, and the
\* other has failed to download an item that has no row.
FileBeforeRowSeen == \E w, v \in 1..Len(workers) :
                        /\ workers[w].pc = "done" /\ workers[w].stats.successful >= 1
                        /\ workers[v].pc = "done" /\ workers[v].stats.failed >= 1
                        /\ Len(db.media) = 1
                        /\ db.media[1].local_path \in files
                        /\ \E k \in 1..Len(workers[v].items) :
                              /\ ~workers[v].results[k]
                              /\ ~HasMedia(db, workers[v].items[k].tweetId, workers[v].items[k].url)

\* C36: an invocation of collectLikes made while a run is active leaves
\* isCollecting true, the active run and its position, its browser context
\* and browser, the profile lock file, the store and the files as they are.
RefusedChangesNothing == [][(isCollecting /\ \E mode \in Modes : TrayStart(mode) \/ (~collectionState.isCollecting /\ IpcStart(mode)))
                            => /\ isCollecting'
                               /\ currentBrowserContext' = currentBrowserContext
                               /\ browser' = browser
                               /\ lockFile' = lockFile
                               /\ run' = run
                               /\ db' = db /\ files' = files]_vars

\* An invocation was refused while the active run holds its browser context
\* and the lock file of the profile.
RefusedChangesNothingSeen == /\ h.refused /\ h.active = 1 /\ isCollecting
                             /\ currentBrowserContext = "context" /\ browser = "open" /\ lockFile
                             /\ run.pc \in {"navigate", "paginate", "extract"}

NoHalfWrittenRead == \A s \in tx.seen : /\ s.links = Len(CleanLinks(s.id))
                                         /\ << s.n, s.id >> \notin tx.undone

\* C34: the catch block of initDatabase deletes the store file only after the
\* corruption error, and then the open is retried; an open that returns
\* after a retry returns an empty store with _db set; after any other error,
\* or when the deletion fails, the file is left as it is and the call raises;
\* the retries of one call are no more than the times the file was corrupted.
OpenRecoversFromCorruption ==
    [][/\ opening'.unlinks > opening.unlinks
          => /\ opening.pc = "catch" /\ opening.error = "SQLITE_CORRUPT"
             /\ opening'.file = "absent" /\ opening'.pc = "open" /\ opening'.depth = opening.depth + 1
       /\ (opening.pc = "catch" /\ opening.error = "SQLITE_CORRUPT" /\ OpenCatch)
          => \/ opening'.unlinks = opening.unlinks + 1 /\ opening'.pc = "open"
             \/ opening'.file = opening.file /\ opening'.result = "raised" /\ opening'.pc = "idle"
       /\ (opening.pc = "catch" /\ opening.error # "SQLITE_CORRUPT" /\ OpenCatch)
          => /\ opening'.unlinks = opening.unlinks /\ opening'.file = opening.file
             /\ opening'.result = "raised" /\ opening'.pc = "idle"
       /\ (opening.pc # "idle" /\ opening'.result = "returned" /\ opening'.depth > 0)
          => opening'.file = "empty" /\ opening'.cached
       /\ opening'.depth <= opening'.corruptions]_vars

\* After a call that raised on another error, a call on a corrupt file has
\* deleted it, retried and returned the empty store.
OpenRecoversFromCorruptionSeen == /\ opening.pc = "idle" /\ opening.result = "returned" /\ opening.depth >= 1
                                  /\ opening.unlinks >= 1 /\ opening.file = "empty" /\ opening.cached
                                  /\ opening.raised >= 1

====
